---- MODULE Spec2Model ----
(***************************************************************************)
(* A model of the static-site translator: the HTML processor (placeholder  *)
(* vault, extraction, reinjection), the translation client (translateBatch *)
(* and translateTexts) and the per-task pipeline of the translate command. *)
(*                                                                         *)
(* Markup strings are sequences of atoms: an opening tag with its          *)
(* attributes, a closing tag, a void tag, a piece of text, or a            *)
(* placeholder token __SKIP_PLACEHOLDER_<n>__.  A parsed document is the    *)
(* same sequence: an element is an opening atom with its matching closing  *)
(* atom, document order is sequence order.                                 *)
(***************************************************************************)
EXTENDS Integers, Sequences, FiniteSets, TLC

VARIABLES
    \* ---- HtmlProcessor, one extract / apply round on one document
    html,             \* the source document handed to extractTranslatableContent
    safety,           \* config.safety
    placeholderMap,   \* HtmlProcessor.placeholderMap (insertion ordered)
    placeholderIndex, \* HtmlProcessor.placeholderIndex
    extraction,       \* {translatable, mapping, processedHtml} of the last extraction
    translations,     \* the Record<string,string> handed to applyTranslations
    targetLanguage,   \* the language handed to applyTranslations
    output,           \* the string applyTranslations returned
    hpc               \* position of the round: "start", "extracted", "translated", "applied"

hvars == <<html, safety, placeholderMap, placeholderIndex, extraction,
           translations, targetLanguage, output, hpc>>

VARIABLES
    \* ---- Translator, one call of translateTexts
    texts,            \* the texts argument (the translatable array)
    mapping,          \* the mapping argument, key -> original text, in insertion order
    translatedTexts,  \* translateTexts: text -> translation, over the batches done
    ti,               \* translateTexts: the loop variable i
    batch,            \* translateBatch: its texts argument
    retries,          \* translateBatch: retries
    tokensUsed,       \* Translator.tokensUsed
    result,           \* what translateTexts returned
    tpc,              \* "loop", "call" (awaiting the API), "sleep" (awaiting the
                      \* timer), "done" (returned), "failed" (threw)
    attempts,         \* history: how each API call of the current batch ended
    waits,            \* history: the waitTime of each sleep of the current batch
    lastBatch,        \* history: the response translateBatch last returned on, and
                      \* what it returned
    sent              \* history: the batches handed to translateBatch, in order

tvars == <<texts, mapping, translatedTexts, ti, batch, retries, tokensUsed, result,
           tpc, attempts, waits, lastBatch, sent>>

VARIABLES
    \* ---- translateCommand, one run over the tasks (file, language)
    pc,               \* per task: where translateFile stands
    extracted,        \* per task: what extractTranslatableContent returned
    translatedHtml,   \* per task: what applyTranslations returned
    appliedWith,      \* per task: the markup applyTranslations was given, and the
                      \* vault map it restored from
    outputs,          \* the target files written, per task
    cacheStore,       \* the cache directory: cache file path -> TranslationCache
    results,          \* translateCommand: results
    stats,            \* translateCommand: stats
    rerun,            \* the task translateFile is run for a second time, 0 before
    firstOutput       \* the target file the first pass of that task left

rvars == <<pc, extracted, translatedHtml, appliedWith, outputs, cacheStore, results, stats,
           rerun, firstOutput>>

VARIABLES
    \* ---- CacheManager, a sequence of set and get calls on one cache directory
    lastSet,          \* history: per (sourceFile, language), the content of the last set
    got               \* history: the last get call, what it read and what it returned

cvars == <<lastSet, got>>

VARIABLES
    \* ---- translateCommand, the tasks it creates and their use of the cache
    configured,       \* config.targetLanguages as the configuration file gives it
    tasks,            \* the (htmlFile, targetLanguage) of the tasks pushed so far
    stage             \* per task: "queued", "get" (inside cacheManager.get), "work",
                      \* "set" (inside cacheManager.set, between its read and its
                      \* write of the cache file), "done"

kvars == <<configured, tasks, stage>>

vars == <<hvars, tvars, rvars, cvars, kvars>>

----------------------------------------------------------------------------
(* Atoms of markup *)

Attr(name, val, q) == [name |-> name, val |-> val, q |-> q]
Open(tag, attrs) == [k |-> "open", tag |-> tag, attrs |-> attrs]
Close(tag) == [k |-> "close", tag |-> tag]
Void(tag, attrs) == [k |-> "void", tag |-> tag, attrs |-> attrs]
\* a piece of text in language lang ("src" for the source language)
Txt(s, lang) == [k |-> "text", s |-> s, lang |-> lang]
\* the text __SKIP_PLACEHOLDER_<n>__
Tok(n) == [k |-> "tok", n |-> n]

NoAttrs == << >>
EmptyStr == << >>

RECURSIVE Concat(_)
\* the concatenation of a sequence of strings
Concat(ss) == IF ss = << >> THEN << >> ELSE Head(ss) \o Concat(Tail(ss))

\* the members of a finite set of integers, in increasing order
SortedSeq(S) ==
    [k \in 1..Cardinality(S) |->
        CHOOSE x \in S : Cardinality({y \in S : y < x}) = k - 1]

\* the indices of the opening atoms of s whose tag is in tags, in document order
OpensOf(s, tags) ==
    SortedSeq({i \in 1..Len(s) : s[i].k = "open" /\ s[i].tag \in tags})

\* the index of the closing atom of the element opened at i: the first closing
\* atom after i with as many opening as closing atoms between the two
MatchClose(s, i) ==
    LET Opens(j) == Cardinality({x \in (i + 1)..(j - 1) : s[x].k = "open"})
        Closes(j) == Cardinality({x \in (i + 1)..(j - 1) : s[x].k = "close"})
        ends == {j \in (i + 1)..Len(s) : s[j].k = "close" /\ Opens(j) = Closes(j)}
    IN IF ends = {} THEN Len(s) + 1
       ELSE CHOOSE j \in ends : \A x \in ends : j <= x

\* F applied to the value of v, which is computed once, before F reads it: the
\* statements of the code run one after another, each on the result of the last
Then(v, F(_)) == CHOOSE r \in {F(x) : x \in {v}} : TRUE

\* s occurs in t as a contiguous substring
IsSubstring(s, t) ==
    \E i \in 0..(Len(t) - Len(s)) : SubSeq(t, i + 1, i + Len(s)) = s

\* the string holds a placeholder token
HasToken(s) == \E i \in 1..Len(s) : s[i].k = "tok"

----------------------------------------------------------------------------
(* HtmlProcessor: the placeholder vault *)

\* getAttributes: every attribute is written back as name="value"
GetAttributes(attrs) ==
    [a \in 1..Len(attrs) |-> Attr(attrs[a].name, attrs[a].val, "dq")]

\* $.html() / $elem.html(): the serializer writes every attribute as name="value"
Html(s) ==
    [i \in 1..Len(s) |->
        IF s[i].k \in {"open", "void"}
        THEN [s[i] EXCEPT !.attrs = GetAttributes(s[i].attrs)]
        ELSE s[i]]

\* the string createPlaceholder is called with for the element opened at i:
\* `<tag${getAttributes}>` + $elem.html() + `</tag>`
OuterMarkup(doc, i) ==
    <<Open(doc[i].tag, GetAttributes(doc[i].attrs))>>
        \o Html(SubSeq(doc, i + 1, MatchClose(doc, i) - 1))
        \o <<Close(doc[i].tag)>>

\* createPlaceholder, called once per string of contents, in order
CreatePlaceholders(map, index, contents) ==
    map \o [c \in 1..Len(contents) |->
                [placeholder |-> index + c - 1, original |-> contents[c]]]

RECURSIVE ProtectFrom(_, _, _)
\* $(selector).each(...) of one protect pass over st = [doc, map, index], from
\* position i on.  The matched set is fixed before the loop: an element nested in
\* an already replaced one is detached, it still gets a placeholder of its own but
\* the document no longer changes.
ProtectFrom(st, i, tags) ==
    LET rest == {n \in i..Len(st.doc) : st.doc[n].k = "open" /\ st.doc[n].tag \in tags}
    IN IF rest = {} THEN st
       ELSE LET o == CHOOSE n \in rest : \A x \in rest : n <= x
                j == MatchClose(st.doc, o)
                nested == SortedSeq({n \in (o + 1)..(j - 1) :
                             st.doc[n].k = "open" /\ st.doc[n].tag \in tags})
                contents == <<OuterMarkup(st.doc, o)>>
                    \o [c \in 1..Len(nested) |-> OuterMarkup(st.doc, nested[c])]
                next == [doc |-> SubSeq(st.doc, 1, o - 1) \o <<Tok(st.index)>>
                                    \o SubSeq(st.doc, j + 1, Len(st.doc)),
                         map |-> CreatePlaceholders(st.map, st.index, contents),
                         index |-> st.index + Len(contents)]
            IN Then(next, LAMBDA s : ProtectFrom(s, o + 1, tags))

\* mutant: the third pass selects 'pre' alone
ProtectPreOnly(doc, cfg) ==
    Then(IF cfg.preserveScripts
         THEN ProtectFrom([doc |-> doc, map |-> << >>, index |-> 0], 1, {"script"})
         ELSE [doc |-> doc, map |-> << >>, index |-> 0],
    LAMBDA s1 :
    Then(IF cfg.preserveStyles THEN ProtectFrom(s1, 1, {"style"}) ELSE s1,
    LAMBDA s2 :
    IF cfg.preserveCodeBlocks THEN ProtectFrom(s2, 1, {"pre"}) ELSE s2))

\* the three protect passes: scripts, styles, then pre and code together
Protect(doc, cfg) ==
    Then(IF cfg.preserveScripts
         THEN ProtectFrom([doc |-> doc, map |-> << >>, index |-> 0], 1, {"script"})
         ELSE [doc |-> doc, map |-> << >>, index |-> 0],
    LAMBDA s1 :
    Then(IF cfg.preserveStyles THEN ProtectFrom(s1, 1, {"style"}) ELSE s1,
    LAMBDA s2 :
    IF cfg.preserveCodeBlocks THEN ProtectFrom(s2, 1, {"pre", "code"}) ELSE s2))

\* String.prototype.replace reads the replacement string as a pattern: "$$"
\* stands for "$" and "$&" for the matched text
ExpandReplacement(original, matched) ==
    [i \in 1..Len(original) |->
        IF original[i] = Txt("$$", "src") THEN Txt("$", "src")
        ELSE IF original[i] = Txt("$&", "src") THEN matched
        ELSE original[i]]

RECURSIVE ReplaceAll(_, _, _)
\* result.replace(new RegExp(placeholder, 'g'), original): every occurrence, left
\* to right, what was put in is not searched again
ReplaceAll(s, n, original) ==
    LET hits == {i \in 1..Len(s) : s[i] = Tok(n)}
    IN IF hits = {} THEN s
       ELSE LET h == CHOOSE i \in hits : \A x \in hits : i <= x
            IN SubSeq(s, 1, h - 1) \o ExpandReplacement(original, Tok(n))
                   \o Then(SubSeq(s, h + 1, Len(s)),
                           LAMBDA rest : ReplaceAll(rest, n, original))

RECURSIVE RestoreFrom(_, _, _)
RestoreFrom(content, map, e) ==
    IF e > Len(map) THEN content
    ELSE Then(ReplaceAll(content, map[e].placeholder, map[e].original),
              LAMBDA next : RestoreFrom(next, map, e + 1))

\* restorePlaceholders: one replace per entry, in insertion order
RestorePlaceholders(content, map) == RestoreFrom(content, map, 1)

----------------------------------------------------------------------------
(* HtmlProcessor: selectors and strings *)

\* a literal piece of source text, as attribute value or content
Lit(str) == <<Txt(str, "src")>>

HasAttr(atom, name) ==
    atom.k \in {"open", "void"} /\ \E a \in 1..Len(atom.attrs) : atom.attrs[a].name = name

\* .attr(name): the value of the first attribute of that name
AttrOf(atom, name) ==
    atom.attrs[CHOOSE a \in 1..Len(atom.attrs) :
        /\ atom.attrs[a].name = name
        /\ \A b \in 1..(a - 1) : atom.attrs[b].name # name].val

\* .attr(name, value): overwrite the attribute, or add it at the end
SetAttr(atom, name, val) ==
    IF HasAttr(atom, name)
    THEN [atom EXCEPT !.attrs = [a \in 1..Len(atom.attrs) |->
              IF atom.attrs[a].name = name
              THEN Attr(name, val, atom.attrs[a].q) ELSE atom.attrs[a]]]
    ELSE [atom EXCEPT !.attrs = Append(atom.attrs, Attr(name, val, "dq"))]

\* .removeAttr(name)
RemoveAttr(atom, name) ==
    [atom EXCEPT !.attrs = SelectSeq(atom.attrs, LAMBDA a : a.name # name)]

IsSpace(atom) == atom.k = "text" /\ atom.s = " "

\* .text(): the text and token atoms of a string of markup
TextOf(s) == SelectSeq(s, LAMBDA a : a.k \in {"text", "tok"})

RECURSIVE TrimLeft(_)
TrimLeft(s) == IF s # << >> /\ IsSpace(Head(s)) THEN TrimLeft(Tail(s)) ELSE s

RECURSIVE TrimRight(_)
TrimRight(s) ==
    IF s # << >> /\ IsSpace(s[Len(s)]) THEN TrimRight(SubSeq(s, 1, Len(s) - 1)) ELSE s

\* String.prototype.trim
Trim(s) == TrimRight(TrimLeft(s))

\* /^__SKIP_PLACEHOLDER_\d+__$/ : the string is exactly one placeholder token
IsOnePlaceholder(s) == Len(s) = 1 /\ s[1].k = "tok"

\* the elements (opening or void atoms) with the given tag and attribute value
Select(doc, tag, name, val) ==
    SortedSeq({i \in 1..Len(doc) :
        /\ doc[i].k \in {"open", "void"}
        /\ doc[i].tag = tag
        /\ HasAttr(doc[i], name)
        /\ AttrOf(doc[i], name) = val})

\* the elements that carry the attribute, restricted to tags (all tags if tags = {})
SelectHaving(doc, tags, name) ==
    SortedSeq({i \in 1..Len(doc) :
        /\ HasAttr(doc[i], name)
        /\ (tags = {} \/ doc[i].tag \in tags)})

\* the inner markup of the element opened at i
Inner(doc, i) == SubSeq(doc, i + 1, MatchClose(doc, i) - 1)

\* the document with the inner markup of the element opened at i replaced
SetInner(doc, i, inner) ==
    SubSeq(doc, 1, i) \o inner \o SubSeq(doc, MatchClose(doc, i), Len(doc))

\* mutant: JSON.parse never throws
JsonParsesAnything(s) == TRUE

\* JSON.parse succeeds on a string that is one JSON text, spaced or compact
JsonParses(s) == Len(s) = 1 /\ s[1].k = "text" /\ s[1].s \in {"json", "json-spaced"}

\* JSON.stringify(JSON.parse(s)): the compact form
JsonStringify(s) == <<Txt("json", s[1].lang)>>

\* Map.prototype.set on an insertion-ordered map kept as a sequence of entries
MapSet(map, key, value) ==
    IF \E e \in 1..Len(map) : map[e].key = key
    THEN [e \in 1..Len(map) |->
             IF map[e].key = key THEN [key |-> key, value |-> value] ELSE map[e]]
    ELSE Append(map, [key |-> key, value |-> value])

MapHas(map, key) == \E e \in 1..Len(map) : map[e].key = key

MapGet(map, key) == map[CHOOSE e \in 1..Len(map) : map[e].key = key].value

\* translatable.push(text); mapping.set(key, value)
Push(st, key, text, value) ==
    [st EXCEPT !.translatable = Append(@, text),
               !.mapping = MapSet(@, key, value)]

----------------------------------------------------------------------------
(* HtmlProcessor.extractTranslatableContent *)

\* the result before any extraction
NoExtraction ==
    [translatable |-> << >>, mapping |-> << >>, processedHtml |-> EmptyStr]

\* the key `__<PREFIX>_<n>__` of an indexed unit
Key(prefix, n) == "__" \o prefix \o "_" \o ToString(n) \o "__"

\* $('title').text()
TitleText(doc) ==
    LET ts == OpensOf(doc, {"title"})
    IN Concat([t \in 1..Len(ts) |-> TextOf(Inner(doc, ts[t]))])

\* the meta elements read one by one, in the order of the code
MetaSingletons ==
    << [name |-> "name",     val |-> "description",         key |-> "__META_DESC__"],
       [name |-> "name",     val |-> "keywords",            key |-> "__META_KEYWORDS__"],
       [name |-> "property", val |-> "og:title",            key |-> "__OG_TITLE__"],
       [name |-> "property", val |-> "og:description",      key |-> "__OG_DESC__"],
       [name |-> "property", val |-> "og:site_name",        key |-> "__OG_SITE_NAME__"],
       [name |-> "property", val |-> "og:image:alt",        key |-> "__OG_IMAGE_ALT__"],
       [name |-> "name",     val |-> "twitter:title",       key |-> "__TWITTER_TITLE__"],
       [name |-> "name",     val |-> "twitter:description", key |-> "__TWITTER_DESC__"],
       [name |-> "name",     val |-> "twitter:image:alt",   key |-> "__TWITTER_IMAGE_ALT__"] >>

\* $('meta[<name>="<val>"]').attr('content'): of the first match, << >> if none
MetaContent(doc, m) ==
    LET ms == Select(doc, "meta", m.name, Lit(m.val))
    IN IF ms # << >> /\ HasAttr(doc[ms[1]], "content")
       THEN AttrOf(doc[ms[1]], "content") ELSE << >>

RECURSIVE ExtractMetas(_, _)
ExtractMetas(st, m) ==
    IF m > Len(MetaSingletons) THEN st
    ELSE LET content == MetaContent(st.doc, MetaSingletons[m])
         IN Then(IF content # << >>
                 THEN Push(st, MetaSingletons[m].key, content, content) ELSE st,
                 LAMBDA next : ExtractMetas(next, m + 1))

\* the title, then the nine meta singletons
ExtractSingletons(st) ==
    LET title == TitleText(st.doc)
    IN Then(IF title # << >> THEN Push(st, "__TITLE__", title, title) ELSE st,
            LAMBDA next : ExtractMetas(next, 1))

JsonLdScripts(doc) == Select(doc, "script", "type", Lit("application/ld+json"))

RECURSIVE ExtractJsonLdFrom(_, _, _)
ExtractJsonLdFrom(st, elems, n) ==
    IF n > Len(elems) THEN st
    ELSE LET jsonContent == Inner(st.doc, elems[n])
         IN Then(IF jsonContent # << >> /\ JsonParses(jsonContent)
                 THEN Push(st, Key("JSON_LD", n - 1), JsonStringify(jsonContent),
                           jsonContent)
                 ELSE st,
                 LAMBDA next : ExtractJsonLdFrom(next, elems, n + 1))

\* $('script[type="application/ld+json"]').each: the stringified JSON is pushed,
\* the raw content is what the mapping keeps
ExtractJsonLd(st) == ExtractJsonLdFrom(st, JsonLdScripts(st.doc), 1)

RECURSIVE ExtractAttrNonBlank(_, _, _, _, _)
\* mutant: the index counts only the matches that yield a unit
ExtractAttrNonBlank(st, elems, n, name, prefix) ==
    LET filled == SelectSeq(elems, LAMBDA i : Trim(AttrOf(st.doc[i], name)) # << >>)
    IN IF n > Len(filled) THEN st
       ELSE LET value == AttrOf(st.doc[filled[n]], name)
            IN Then(Push(st, Key(prefix, n - 1), value, value),
                    LAMBDA next : ExtractAttrNonBlank(next, elems, n + 1, name, prefix))

RECURSIVE ExtractAttrFrom(_, _, _, _, _)
ExtractAttrFrom(st, elems, n, name, prefix) ==
    IF n > Len(elems) THEN st
    ELSE LET value == AttrOf(st.doc[elems[n]], name)
         IN Then(IF value # << >> /\ Trim(value) # << >>
                 THEN Push(st, Key(prefix, n - 1), value, value) ELSE st,
                 LAMBDA next : ExtractAttrFrom(next, elems, n + 1, name, prefix))

\* $('img[alt]'), $('[title]'), $('[placeholder]'): keyed by position among matches
ExtractAttributes(st) ==
    Then(ExtractAttrFrom(st, SelectHaving(st.doc, {"img"}, "alt"), 1, "alt", "IMG_ALT"),
    LAMBDA a :
    Then(ExtractAttrFrom(a, SelectHaving(a.doc, {}, "title"), 1, "title", "TITLE_ATTR"),
    LAMBDA b :
    ExtractAttrFrom(b, SelectHaving(b.doc, {}, "placeholder"), 1,
                    "placeholder", "PLACEHOLDER")))

blockElements ==
    {"p", "h1", "h2", "h3", "h4", "h5", "h6", "li", "td", "th", "dt", "dd",
     "blockquote", "figcaption", "caption", "label", "legend", "summary"}

\* mutant: the test for nested block elements is left out
NoBlockChildren(doc, i) == FALSE

\* $elem.find(blockSelector).length > 0
hasBlockChildren(doc, i) ==
    \E n \in (i + 1)..(MatchClose(doc, i) - 1) :
        doc[n].k = "open" /\ doc[n].tag \in blockElements

\* the value of data-translate-key is the key, kept as one piece of text
KeyVal(key) == <<Txt(key, "key")>>

\* the callback of element.find(blockSelector).each for the element opened at i
ExtractBlock(st, i) ==
    LET innerHTML == Html(Inner(st.doc, i))
        textContent == Trim(TextOf(Inner(st.doc, i)))
        key == Key("BLOCK", Len(st.translatable))
    IN IF HasAttr(st.doc[i], "data-translate-key")
          /\ AttrOf(st.doc[i], "data-translate-key") # << >> THEN st
       ELSE IF hasBlockChildren(st.doc, i) THEN st
       ELSE IF innerHTML = << >> THEN st
       ELSE IF textContent = << >> \/ IsOnePlaceholder(textContent) THEN st
       ELSE IF IsOnePlaceholder(innerHTML) THEN st
       ELSE [Push(st, key, innerHTML, innerHTML) EXCEPT
                !.doc[i] = SetAttr(st.doc[i], "data-translate-key", KeyVal(key))]

RECURSIVE ExtractBlocksFrom(_, _, _)
ExtractBlocksFrom(st, elems, n) ==
    IF n > Len(elems) THEN st
    ELSE Then(ExtractBlock(st, elems[n]),
              LAMBDA next : ExtractBlocksFrom(next, elems, n + 1))

\* extractBlockElements($, $('body'), ...): the block elements inside body
extractBlockElements(st) ==
    LET bodies == OpensOf(st.doc, {"body"})
        inBody == {i \in 1..Len(st.doc) :
                     /\ st.doc[i].k = "open" /\ st.doc[i].tag \in blockElements
                     /\ \E b \in 1..Len(bodies) :
                            bodies[b] < i /\ i < MatchClose(st.doc, bodies[b])}
    IN ExtractBlocksFrom(st, SortedSeq(inBody), 1)

\* extractTranslatableContent(html): the vault is cleared, the document is
\* protected, the units are collected and the skeleton is serialized
extractTranslatableContent(doc, cfg) ==
    Then(Protect(doc, cfg), LAMBDA p :
    Then(ExtractSingletons([doc |-> p.doc, translatable |-> << >>,
                            mapping |-> << >>]), LAMBDA s1 :
    Then(ExtractJsonLd(s1), LAMBDA s2 :
    Then(ExtractAttributes(s2), LAMBDA s3 :
    Then(extractBlockElements(s3), LAMBDA s4 :
        [translatable |-> s4.translatable,
         mapping |-> s4.mapping,
         processedHtml |-> Html(s4.doc),
         placeholderMap |-> p.map,
         placeholderIndex |-> p.index])))))

----------------------------------------------------------------------------
(* HtmlProcessor.applyTranslations *)

\* translations[key], the empty string standing for undefined as well
Translation(tr, key) == IF key \in DOMAIN tr THEN tr[key] ELSE << >>

RECURSIVE SetInnerAll(_, _, _, _)
\* set the inner markup of the elements elems[1..n], last one first
SetInnerAll(doc, elems, n, inner) ==
    IF n = 0 THEN doc
    ELSE Then(SetInner(doc, elems[n], inner),
              LAMBDA next : SetInnerAll(next, elems, n - 1, inner))

\* $('title').text(translations['__TITLE__'])
ApplyTitle(doc, tr) ==
    LET ts == OpensOf(doc, {"title"})
    IN IF Translation(tr, "__TITLE__") # << >>
       THEN SetInnerAll(doc, ts, Len(ts), TextOf(Translation(tr, "__TITLE__")))
       ELSE doc

\* $('meta[...]').attr('content', translation) for one meta singleton
ApplyMeta(doc, tr, m) ==
    LET ms == Select(doc, "meta", m.name, Lit(m.val))
        hit == {ms[x] : x \in 1..Len(ms)}
    IN IF Translation(tr, m.key) # << >>
       THEN [i \in 1..Len(doc) |->
                IF i \in hit THEN SetAttr(doc[i], "content", Translation(tr, m.key))
                ELSE doc[i]]
       ELSE doc

RECURSIVE ApplyMetas(_, _, _)
ApplyMetas(doc, tr, m) ==
    IF m > Len(MetaSingletons) THEN doc
    ELSE Then(ApplyMeta(doc, tr, MetaSingletons[m]),
              LAMBDA next : ApplyMetas(next, tr, m + 1))

RECURSIVE ApplyJsonLdFrom(_, _, _, _)
\* the JSON-LD scripts elems[1..n], last one first: a translation that parses
\* replaces the content, one that does not is skipped
ApplyJsonLdFrom(doc, tr, elems, n) ==
    IF n = 0 THEN doc
    ELSE LET t == Translation(tr, Key("JSON_LD", n - 1))
         IN Then(IF t # << >> /\ JsonParses(t)
                 THEN SetInner(doc, elems[n], JsonStringify(t)) ELSE doc,
                 LAMBDA next : ApplyJsonLdFrom(next, tr, elems, n - 1))

ApplyJsonLd(doc, tr) ==
    ApplyJsonLdFrom(doc, tr, JsonLdScripts(doc), Len(JsonLdScripts(doc)))

\* $(selector).each((index, elem) => $(elem).attr(name, translations[key]))
ApplyAttr(doc, tr, elems, name, prefix) ==
    [i \in 1..Len(doc) |->
        IF \E n \in 1..Len(elems) :
               elems[n] = i /\ Translation(tr, Key(prefix, n - 1)) # << >>
        THEN LET n == CHOOSE n \in 1..Len(elems) : elems[n] = i
             IN SetAttr(doc[i], name, Translation(tr, Key(prefix, n - 1)))
        ELSE doc[i]]

ApplyAttributes(doc, tr) ==
    Then(ApplyAttr(doc, tr, SelectHaving(doc, {"img"}, "alt"), "alt", "IMG_ALT"),
    LAMBDA a :
    Then(ApplyAttr(a, tr, SelectHaving(a, {}, "title"), "title", "TITLE_ATTR"),
    LAMBDA b :
    ApplyAttr(b, tr, SelectHaving(b, {}, "placeholder"), "placeholder", "PLACEHOLDER")))

\* the key read back from data-translate-key ("" when the value is empty)
KeyOf(atom) ==
    LET v == AttrOf(atom, "data-translate-key")
    IN IF v = << >> THEN "" ELSE v[1].s

RECURSIVE ApplyBlocksFrom(_, _, _, _)
\* the tagged elements elems[1..n], last one first
ApplyBlocksFrom(doc, tr, elems, n) ==
    IF n = 0 THEN doc
    ELSE LET i == elems[n]
             key == KeyOf(doc[i])
         IN Then(IF key # "" /\ Translation(tr, key) # << >>
                 THEN [SetInner(doc, i, Translation(tr, key)) EXCEPT
                          ![i] = RemoveAttr(doc[i], "data-translate-key")]
                 ELSE doc,
                 LAMBDA next : ApplyBlocksFrom(next, tr, elems, n - 1))

\* applyBlockTranslations: $('[data-translate-key]').each
applyBlockTranslations(doc, tr) ==
    LET elems == SelectHaving(doc, {}, "data-translate-key")
    IN ApplyBlocksFrom(doc, tr, elems, Len(elems))

\* getSourceLanguage
SourceLanguage == "en"

RECURSIVE Dedupe(_)
\* filter((lang, index, self) => self.indexOf(lang) === index)
Dedupe(q) ==
    IF q = << >> THEN << >>
    ELSE LET front == Dedupe(SubSeq(q, 1, Len(q) - 1))
             last == q[Len(q)]
         IN IF \E x \in 1..Len(front) : front[x] = last THEN front
            ELSE Append(front, last)

\* the link injectHreflangTags appends for lang (seo.baseUrl is not configured)
HreflangLink(lang, currentLanguage) ==
    Void("link", << Attr("rel", Lit("alternate"), "dq"),
                    Attr("hreflang",
                         Lit(IF lang = currentLanguage THEN "x-default" ELSE lang), "dq"),
                    Attr("href", Lit("/" \o lang \o "/"), "dq") >>)

\* mutant: the alternate links already in the document are not removed
injectKeepsOldLinks(doc, currentLanguage, targetLanguages) ==
    LET languages == Dedupe(Append(targetLanguages, SourceLanguage))
        links == Concat([l \in 1..Len(languages) |->
                    <<HreflangLink(languages[l], currentLanguage), Txt("\n", "src")>>])
        heads == OpensOf(doc, {"head"})
    IN IF heads = << >> THEN doc
       ELSE LET c == MatchClose(doc, heads[1])
            IN SubSeq(doc, 1, c - 1) \o links \o SubSeq(doc, c, Len(doc))

\* injectHreflangTags: the old alternate links go, one link per language is
\* appended to head
injectHreflangTags(doc, currentLanguage, targetLanguages) ==
    LET kept == SelectSeq(doc, LAMBDA a :
                    ~(a.k = "void" /\ a.tag = "link" /\ HasAttr(a, "hreflang")
                      /\ HasAttr(a, "rel") /\ AttrOf(a, "rel") = Lit("alternate")))
        languages == Dedupe(Append(targetLanguages, SourceLanguage))
        links == Concat([l \in 1..Len(languages) |->
                    <<HreflangLink(languages[l], currentLanguage), Txt("\n", "src")>>])
        heads == OpensOf(kept, {"head"})
    IN IF heads = << >> THEN kept
       ELSE LET c == MatchClose(kept, heads[1])
            IN SubSeq(kept, 1, c - 1) \o links \o SubSeq(kept, c, Len(kept))

\* $('html').attr('lang', targetLanguage)
SetLang(doc, lang) ==
    [i \in 1..Len(doc) |->
        IF doc[i].k = "open" /\ doc[i].tag = "html"
        THEN SetAttr(doc[i], "lang", Lit(lang)) ELSE doc[i]]

\* applyTranslations(processedHtml, translations, targetLanguage), restoring from
\* the vault map the processor holds at that moment
applyTranslations(processedHtml, tr, lang, map, cfg) ==
    Then(ApplyTitle(processedHtml, tr), LAMBDA d0 :
    Then(ApplyMetas(d0, tr, 1), LAMBDA d1 :
    Then(ApplyJsonLd(d1, tr), LAMBDA d2 :
    Then(ApplyAttributes(d2, tr), LAMBDA d3 :
    Then(applyBlockTranslations(d3, tr), LAMBDA d4 :
    Then(IF cfg.injectHreflang
         THEN injectHreflangTags(d4, lang, cfg.targetLanguages) ELSE d4, LAMBDA d5 :
    Then(Html(SetLang(d5, lang)), LAMBDA serialized :
        RestorePlaceholders(serialized, map))))))))

----------------------------------------------------------------------------
(* Inputs: documents, configurations, and what the translation capability returns *)

\* the number of fragments a document body is put together from
MaxFragments == 2

P(inner) == <<Open("p", NoAttrs)>> \o inner \o <<Close("p")>>
Script(attrs, inner) == <<Open("script", attrs)>> \o inner \o <<Close("script")>>
Code(inner) == <<Open("code", NoAttrs)>> \o inner \o <<Close("code")>>
Pre(inner) == <<Open("pre", NoAttrs)>> \o inner \o <<Close("pre")>>
Div(inner) == <<Open("div", NoAttrs)>> \o inner \o <<Close("div")>>
Li(inner) == <<Open("li", NoAttrs)>> \o inner \o <<Close("li")>>

\* the pieces of body markup documents are made of
Fragments ==
    << P(Lit("World")),
       Script(NoAttrs, Lit("var x=1;")),
       Script(<<Attr("src", Lit("a.js"), "sq")>>, EmptyStr),
       Script(NoAttrs, <<Txt("$$", "src")>>),
       Pre(Script(NoAttrs, Lit("x"))),
       Pre(Code(Lit("x"))),
       P(Lit("Use") \o Code(Lit("x")) \o Lit("now")),
       P(Code(Lit("x"))),
       Script(<<Attr("type", Lit("application/ld+json"), "dq")>>,
              <<Txt("json-spaced", "src")>>),
       <<Void("img", <<Attr("alt", Lit("Logo"), "dq")>>)>>,
       Div(P(Lit("A")) \o P(Lit("B"))),
       Li(P(Lit("A"))) >>

\* the head sections documents are made of
Heads ==
    << <<Open("title", NoAttrs), Txt("Hello", "src"), Close("title")>>,
       <<Open("title", NoAttrs), Txt("Hello", "src"), Close("title"),
         Void("meta", <<Attr("name", Lit("description"), "dq"),
                        Attr("content", Lit("About"), "dq")>>),
         Void("link", <<Attr("rel", Lit("alternate"), "dq"),
                        Attr("hreflang", Lit("es"), "dq"),
                        Attr("href", Lit("/old/"), "dq")>>),
         Open("style", NoAttrs), Txt("p{}", "src"), Close("style")>> >>

Page(head, body) ==
    <<Open("html", NoAttrs), Open("head", NoAttrs)>> \o head
        \o <<Close("head"), Open("body", NoAttrs)>> \o body
        \o <<Close("body"), Close("html")>>

RECURSIVE BodiesOf(_)
\* the bodies of at most n fragments
BodiesOf(n) ==
    IF n = 0 THEN {EmptyStr}
    ELSE LET shorter == BodiesOf(n - 1)
         IN shorter \cup {b \o Fragments[f] : b \in shorter, f \in 1..Len(Fragments)}

Docs == {Page(Heads[h], b) : h \in 1..Len(Heads), b \in BodiesOf(MaxFragments)}

\* config.targetLanguages
TargetLanguages == <<"es", "fr">>

DefaultConfig ==
    [preserveScripts |-> TRUE, preserveStyles |-> TRUE, preserveCodeBlocks |-> TRUE,
     injectHreflang |-> TRUE, targetLanguages |-> TargetLanguages]

\* the configurations: the defaults, and each switch turned off alone
Configs ==
    {DefaultConfig,
     [DefaultConfig EXCEPT !.preserveScripts = FALSE],
     [DefaultConfig EXCEPT !.preserveStyles = FALSE],
     [DefaultConfig EXCEPT !.preserveCodeBlocks = FALSE],
     [DefaultConfig EXCEPT !.injectHreflang = FALSE]}

\* what the translation capability may do with a text: translate every piece of
\* source text and keep the tokens ("ok"), translate and lose the tokens
\* ("drop"), or return nothing for it ("empty")
Modes == {"ok", "drop", "empty", "absent"}

\* "ok", and a capability that returns text that is no JSON for a JSON text and
\* translates every other text ("badjson")
UnitModes == {"ok", "badjson"}

TranslateText(s, lang, mode) ==
    LET kept == IF mode = "drop" THEN SelectSeq(s, LAMBDA a : a.k # "tok") ELSE s
    IN IF mode = "empty" THEN EmptyStr
       ELSE [i \in 1..Len(kept) |->
                IF kept[i].k = "text" /\ kept[i].lang = "src"
                THEN IF mode = "badjson" /\ kept[i].s \in {"json", "json-spaced"}
                     THEN Txt("not json", lang)
                     ELSE Txt(kept[i].s, lang)
                ELSE kept[i]]

\* a Record<string, string> over the keys of the mapping ("absent": no key at all)
MockTranslations(map, lang, mode) ==
    IF mode = "absent" THEN << >>
    ELSE [key \in {map[e].key : e \in 1..Len(map)} |->
             TranslateText(MapGet(map, key), lang, mode)]

----------------------------------------------------------------------------
(* One HtmlProcessor, used for one document after another *)

\* the translator at rest
TIdle ==
    /\ texts = << >>
    /\ mapping = << >>
    /\ translatedTexts = << >>
    /\ ti = 0
    /\ batch = << >>
    /\ retries = 0
    /\ tokensUsed = 0
    /\ result = << >>
    /\ tpc = "idle"
    /\ attempts = << >>
    /\ waits = << >>
    /\ lastBatch = [texts |-> << >>, translations |-> << >>, result |-> << >>]
    /\ sent = << >>

\* the classes of elements the configuration protects
ProtectedTags(cfg) ==
    (IF cfg.preserveScripts THEN {"script"} ELSE {})
        \cup (IF cfg.preserveStyles THEN {"style"} ELSE {})
        \cup (IF cfg.preserveCodeBlocks THEN {"pre", "code"} ELSE {})

\* no call of the cache manager recorded
NoSet == [set |-> FALSE, content |-> EmptyStr]

NoGet ==
    [called |-> FALSE, sourceFile |-> "", content |-> EmptyStr, language |-> "",
     cache |-> [exists |-> FALSE], lastSet |-> NoSet,
     result |-> [hit |-> FALSE, translation |-> EmptyStr]]

CIdle ==
    /\ lastSet = << >>
    /\ got = NoGet

\* no task list followed
KIdle ==
    /\ configured = << >>
    /\ tasks = << >>
    /\ stage = << >>

\* no run of the translate command
RIdle ==
    /\ pc = << >>
    /\ extracted = << >>
    /\ translatedHtml = << >>
    /\ appliedWith = << >>
    /\ outputs = << >>
    /\ cacheStore = << >>
    /\ results = << >>
    /\ stats = [totalFiles |-> 0, successfulFiles |-> 0, failedFiles |-> 0,
                totalTokens |-> 0]
    /\ rerun = 0
    /\ firstOutput = EmptyStr
    /\ CIdle
    /\ KIdle

HInit ==
    /\ TIdle
    /\ RIdle
    /\ html \in Docs
    /\ safety \in Configs
    /\ placeholderMap = << >>
    /\ placeholderIndex = 0
    /\ extraction = NoExtraction
    /\ translations = << >>
    /\ targetLanguage = ""
    /\ output = EmptyStr
    /\ hpc = "start"

\* extractTranslatableContent(html)
HExtract ==
    /\ hpc = "start"
    /\ LET r == extractTranslatableContent(html, safety)
       IN /\ placeholderMap' = r.placeholderMap
          /\ placeholderIndex' = r.placeholderIndex
          /\ extraction' = [translatable |-> r.translatable, mapping |-> r.mapping,
                            processedHtml |-> r.processedHtml]
    /\ hpc' = "extracted"
    /\ UNCHANGED <<html, safety, translations, targetLanguage, output, tvars,
                   rvars, cvars, kvars>>

\* applyTranslations(processedHtml, translations, lang) on the skeleton of the
\* last extraction
HApply(lang, mode) ==
    /\ hpc = "extracted"
    /\ translations' = MockTranslations(extraction.mapping, lang, mode)
    /\ targetLanguage' = lang
    /\ output' = applyTranslations(extraction.processedHtml, translations', lang,
                                   placeholderMap, safety)
    /\ hpc' = "applied"
    /\ UNCHANGED <<html, safety, placeholderMap, placeholderIndex, extraction, tvars,
                   rvars, cvars, kvars>>

HNext ==
    \/ HExtract
    \/ \E l \in 1..Len(TargetLanguages), mode \in Modes : HApply(TargetLanguages[l], mode)

SpecHtml == HInit /\ [][HNext]_vars

----------------------------------------------------------------------------
(* The same processor on documents with structured data and attributes *)

\* the number of pieces a document body of this kind is put together from
MaxPieces == 2

JsonLd(content) ==
    Script(<<Attr("type", Lit("application/ld+json"), "dq")>>, <<Txt(content, "src")>>)

\* body markup with JSON-LD that parses and that does not, a block holding two
\* protected elements and no text, and alt, title and placeholder attributes that
\* are filled, blank or empty
UnitFragments ==
    << P(Lit("World")),
       JsonLd("json-spaced"),
       JsonLd("{bad"),
       P(Code(Lit("x")) \o Code(Lit("y"))),
       <<Void("img", <<Attr("alt", Lit(" "), "dq")>>)>>,
       <<Void("img", <<Attr("alt", Lit("Photo"), "dq"), Attr("title", Lit("Hint"), "dq")>>)>>,
       <<Void("input", <<Attr("placeholder", EmptyStr, "dq")>>)>>,
       <<Void("input", <<Attr("placeholder", Lit("Name"), "dq")>>)>> >>

\* a head with a title, and one whose title is a single space
UnitHeads ==
    << Heads[1],
       <<Open("title", NoAttrs), Txt(" ", "src"), Close("title")>> >>

RECURSIVE UnitBodiesOf(_)
UnitBodiesOf(n) ==
    IF n = 0 THEN {EmptyStr}
    ELSE LET shorter == UnitBodiesOf(n - 1)
         IN shorter \cup {b \o UnitFragments[f] : b \in shorter,
                                                  f \in 1..Len(UnitFragments)}

UnitDocs == {Page(UnitHeads[h], b) : h \in 1..Len(UnitHeads), b \in UnitBodiesOf(MaxPieces)}

UInit ==
    /\ TIdle
    /\ RIdle
    /\ html \in UnitDocs
    /\ safety \in Configs
    /\ placeholderMap = << >>
    /\ placeholderIndex = 0
    /\ extraction = NoExtraction
    /\ translations = << >>
    /\ targetLanguage = ""
    /\ output = EmptyStr
    /\ hpc = "start"

UNext ==
    \/ HExtract
    \/ \E l \in 1..Len(TargetLanguages), mode \in UnitModes :
           HApply(TargetLanguages[l], mode)

SpecUnits == UInit /\ [][UNext]_vars

----------------------------------------------------------------------------
(* Translator.translateBatch and Translator.translateTexts *)

maxRetries == 3

\* the batch size of translateTexts, scaled down from the program's 20
batchSize == 2

\* the number of units of one call of translateTexts
MaxUnits == 4

\* "" stands for an empty, null or undefined string
Blank == ""

\* mutant: the wait is computed from the count before `retries++`
waitTimeBeforeIncrement(n) ==
    IF 1000 * (2 ^ (n - 1)) < 10000 THEN 1000 * (2 ^ (n - 1)) ELSE 10000

\* Math.min(1000 * Math.pow(2, retries), 10000)
waitTime(n) == IF 1000 * (2 ^ n) < 10000 THEN 1000 * (2 ^ n) ELSE 10000

\* mutant: every error is taken for a rate limit
IsAnyError(error) == TRUE

\* error?.status === 429 || error?.code === 'rate_limit_exceeded'
IsRateLimit(error) == error.status = 429 \/ error.code = "rate_limit_exceeded"

\* the while loop of "Pad with original texts if needed"
PadTranslations(translationsArray, batchTexts) ==
    IF Len(translationsArray) < Len(batchTexts)
    THEN translationsArray
             \o SubSeq(batchTexts, Len(translationsArray) + 1, Len(batchTexts))
    ELSE translationsArray

\* mutant: parsed.translations[index], without the fallback to the text
EntryNoFallback(translationsArray, index, text) ==
    IF index <= Len(translationsArray) THEN translationsArray[index] ELSE Blank

\* parsed.translations[index] || text
EntryOrText(translationsArray, index, text) ==
    IF index <= Len(translationsArray) /\ translationsArray[index] # Blank
    THEN translationsArray[index] ELSE text

\* texts.forEach((text, index) => result[text] = parsed.translations[index] || text):
\* a later index overwrites an earlier one of the same text
BatchResult(batchTexts, translationsArray) ==
    LET padded == PadTranslations(translationsArray, batchTexts)
    IN [t \in {batchTexts[x] : x \in 1..Len(batchTexts)} |->
           LET last == CHOOSE x \in 1..Len(batchTexts) :
                           /\ batchTexts[x] = t
                           /\ \A y \in (x + 1)..Len(batchTexts) : batchTexts[y] # t
           IN EntryOrText(padded, last, t)]

\* JSON.parse(content) succeeded and parsed.translations is an array
Parses(content) == content.shape = "translations"

\* mutant: the texts are batched as they come, duplicates included
textsAsGiven == texts

\* Array.from(new Set(texts))
uniqueTexts == Dedupe(texts)

\* mutant: uniqueTexts.slice(i), the rest of the texts in one batch
SliceToEnd(q, from) == SubSeq(q, from + 1, Len(q))

\* uniqueTexts.slice(i, i + batchSize)
Slice(q, from) ==
    SubSeq(q, from + 1, IF from + batchSize < Len(q) THEN from + batchSize ELSE Len(q))

\* mutant: translatedTexts[originalText], without the fallback to the original
TranslatedNoFallback(tt, originalText) ==
    IF originalText \in DOMAIN tt THEN tt[originalText] ELSE Blank

\* translatedTexts[originalText] || originalText
TranslatedOrOriginal(tt, originalText) ==
    IF originalText \in DOMAIN tt /\ tt[originalText] # Blank
    THEN tt[originalText] ELSE originalText

\* "Map back using original keys"
MapBack(map, tt) ==
    [key \in {map[e].key : e \in 1..Len(map)} |->
        TranslatedOrOriginal(tt, MapGet(map, key))]

\* the context object translateTexts builds for a batch
BatchContext(map, b) ==
    LET keys == {map[e].key : e \in {x \in 1..Len(map) :
                     \E y \in 1..Len(b) : b[y] = map[x].value}}
    IN [isTitle |-> "__TITLE__" \in keys,
        isMeta |-> \E k \in keys : k \in {"__META_DESC__", "__META_KEYWORDS__"}]

----------------------------------------------------------------------------
(* Inputs of the translator: units, and what the API call may end in *)

\* the j-th distinct source text
T(j) == "t" \o ToString(j)

\* what the capability makes of a source text
Tr(text) == "tr:" \o text

\* the raw content of a JSON-LD block whose stringified form is text
Spaced(text) == "spaced:" \o text

\* the key of the k-th unit: a title, a JSON-LD block, then block elements
UnitKey(k) ==
    IF k = 1 THEN "__TITLE__"
    ELSE IF k = 2 THEN Key("JSON_LD", 0)
    ELSE Key("BLOCK", k - 1)

\* the ways n units share texts: unit k repeats an earlier text or brings the
\* next new one
Sharings(n) ==
    {f \in [1..n -> 1..n] :
        /\ f[1] = 1
        /\ \A k \in 2..n : \E m \in 1..(k - 1) : f[k] <= f[m] + 1}

\* the (translatable, mapping) pairs an extraction hands over: text and mapping
\* value agree, except for a JSON-LD unit whose raw content is not in the
\* stringified form
UnitInputs ==
    UNION {{[texts |-> [k \in 1..n |-> T(f[k])],
             mapping |-> [k \in 1..n |->
                 [key |-> UnitKey(k),
                  value |-> IF k = 2 /\ spaced THEN Spaced(T(f[k])) ELSE T(f[k])]]] :
               f \in Sharings(n), spaced \in BOOLEAN} :
           n \in 1..MaxUnits}

\* the errors the API call may throw
ApiErrors ==
    {[status |-> 429, code |-> "none"],
     [status |-> 0, code |-> "rate_limit_exceeded"],
     [status |-> 500, code |-> "none"]}

\* the Error thrown for a response that does not parse
ParseError == [status |-> 0, code |-> "none"]

\* the translations arrays a response to b may carry: shorter, equal or longer
\* than b, an entry being the translation of its text or blank
TranslationArrays(b) ==
    UNION {{[x \in 1..len |->
               IF x > Len(b) THEN "extra" ELSE IF x \in blanks THEN Blank ELSE Tr(b[x])] :
              blanks \in SUBSET (1..(IF len < Len(b) THEN len ELSE Len(b)))} :
           len \in 0..(Len(b) + 1)}

\* the contents of a response: not JSON, JSON without a translations array, or
\* JSON with one
Contents(b) ==
    {[shape |-> "notjson", translations |-> << >>],
     [shape |-> "noarray", translations |-> << >>]}
    \cup {[shape |-> "translations", translations |-> a] : a \in TranslationArrays(b)}

\* response.usage.total_tokens, 0 when the response carries no usage
Usages == {0, 1}

\* the history entry of an API call that returned a response
Answered(how) == [status |-> 200, code |-> how]

NoBatch == [texts |-> << >>, translations |-> << >>, result |-> << >>]

----------------------------------------------------------------------------
(* One call of translateTexts, its batches one after another *)

\* the processor at rest
HIdle ==
    /\ html = EmptyStr
    /\ safety = DefaultConfig
    /\ placeholderMap = << >>
    /\ placeholderIndex = 0
    /\ extraction = NoExtraction
    /\ translations = << >>
    /\ targetLanguage = ""
    /\ output = EmptyStr
    /\ hpc = "idle"

TInit ==
    /\ HIdle
    /\ RIdle
    /\ \E u \in UnitInputs : texts = u.texts /\ mapping = u.mapping
    /\ translatedTexts = << >>
    /\ ti = 0
    /\ batch = << >>
    /\ retries = 0
    /\ tokensUsed = 0
    /\ result = << >>
    /\ tpc = "loop"
    /\ attempts = << >>
    /\ waits = << >>
    /\ lastBatch = NoBatch
    /\ sent = << >>

\* the for loop takes the next slice and calls translateBatch, which issues its
\* first API call
TCallBatch ==
    /\ tpc = "loop"
    /\ ti < Len(uniqueTexts)
    /\ batch' = Slice(uniqueTexts, ti)
    /\ retries' = 0
    /\ attempts' = << >>
    /\ waits' = << >>
    /\ sent' = Append(sent, batch')
    /\ tpc' = IF Len(batch') = 0 THEN "loop" ELSE "call"
    /\ UNCHANGED <<texts, mapping, translatedTexts, ti, tokensUsed, result, lastBatch,
                   hvars, rvars, cvars, kvars>>

\* mutant: the catch block sleeps once more, `retries <= maxRetries`
CatchOneMore(error, outcome) ==
    /\ retries' = retries + 1
    /\ attempts' = Append(attempts, outcome)
    /\ IF IsRateLimit(error) /\ retries' <= maxRetries
       THEN /\ waits' = Append(waits, waitTime(retries'))
            /\ tpc' = "sleep"
       ELSE /\ waits' = waits
            /\ tpc' = "failed"

\* the catch block of translateBatch, entered with error; outcome is what the
\* history keeps of the attempt
Catch(error, outcome) ==
    /\ retries' = retries + 1
    /\ attempts' = Append(attempts, outcome)
    /\ IF IsRateLimit(error) /\ retries' < maxRetries
       THEN /\ waits' = Append(waits, waitTime(retries'))
            /\ tpc' = "sleep"
       ELSE /\ waits' = waits
            /\ tpc' = "failed"

\* the API call throws
TApiError(error) ==
    /\ tpc = "call"
    /\ Catch(error, error)
    /\ UNCHANGED <<texts, mapping, translatedTexts, ti, batch, tokensUsed, result,
                   lastBatch, sent, hvars, rvars, cvars, kvars>>

\* the API call returns a response: the tokens are counted, then the content is
\* parsed; translateBatch returns to the loop of translateTexts, or the parse
\* error lands in the catch block
TApiResponse(usage, content) ==
    /\ tpc = "call"
    /\ tokensUsed' = tokensUsed + usage
    /\ IF Parses(content)
       THEN /\ lastBatch' = [texts |-> batch, translations |-> content.translations,
                             result |-> BatchResult(batch, content.translations)]
            /\ translatedTexts' = lastBatch'.result @@ translatedTexts
            /\ ti' = ti + batchSize
            /\ attempts' = Append(attempts, Answered("ok"))
            /\ tpc' = "loop"
            /\ UNCHANGED <<retries, waits>>
       ELSE /\ Catch(ParseError, Answered("malformed"))
            /\ UNCHANGED <<translatedTexts, ti, lastBatch>>
    /\ UNCHANGED <<texts, mapping, batch, result, sent, hvars, rvars, cvars, kvars>>

\* the timer fires: continue, the loop condition is read again
TWake ==
    /\ tpc = "sleep"
    /\ tpc' = IF retries < maxRetries THEN "call" ELSE "failed"
    /\ UNCHANGED <<texts, mapping, translatedTexts, ti, batch, retries, tokensUsed,
                   result, attempts, waits, lastBatch, sent, hvars, rvars, cvars, kvars>>

\* the loop is over: the keys are mapped back and translateTexts returns
TReturn ==
    /\ tpc = "loop"
    /\ ti >= Len(uniqueTexts)
    /\ result' = MapBack(mapping, translatedTexts)
    /\ tpc' = "done"
    /\ UNCHANGED <<texts, mapping, translatedTexts, ti, batch, retries, tokensUsed,
                   attempts, waits, lastBatch, sent, hvars, rvars, cvars, kvars>>

TNext ==
    \/ TCallBatch
    \/ \E error \in ApiErrors : TApiError(error)
    \/ \E usage \in Usages, content \in Contents(batch) : TApiResponse(usage, content)
    \/ TWake
    \/ TReturn

SpecTr == TInit /\ [][TNext]_vars

----------------------------------------------------------------------------
(* translateCommand: one run, its tasks sharing one Translator, one
   HtmlProcessor and one CacheManager *)

\* config.parallel.limit, the number of tasks p-limit lets run together
parallelLimit == 2

\* htmlFiles, in the order the glob lists them
htmlFiles == <<"a.html", "b.html">>

\* what fs.readFile gives for each source file
FileContent(htmlFile) ==
    CASE htmlFile = "a.html" ->
            Page(Heads[1], P(Lit("World")) \o Script(NoAttrs, Lit("var x=1;")))
      [] OTHER -> Page(EmptyStr, Pre(Code(Lit("x"))))

\* the tasks, in the order the two for loops push them
Tasks ==
    [t \in 1..(Len(htmlFiles) * Len(TargetLanguages)) |->
        [htmlFile |-> htmlFiles[((t - 1) \div Len(TargetLanguages)) + 1],
         targetLanguage |-> TargetLanguages[((t - 1) % Len(TargetLanguages)) + 1]]]

TaskIds == 1..Len(Tasks)

\* CacheManager.generateHash, md5 taken as free of collisions
generateHash(content) == [md5 |-> content]

\* mutant: one cache file per language, whatever the source file
getCacheFilePathByLanguage(sourceFile, language) == generateHash(language)

\* mutant: one cache file per source file, whatever the language
getCacheFilePathBySource(sourceFile, language) == generateHash(sourceFile)

\* CacheManager.getCacheFilePath
getCacheFilePath(sourceFile, language) == generateHash(sourceFile \o "-" \o language)

CacheFiles == {getCacheFilePath(Tasks[t].htmlFile, Tasks[t].targetLanguage) : t \in TaskIds}

\* no file at a cache path
NoCacheFile == [exists |-> FALSE]

\* CacheManager.get: the cached translation, or null (hit = FALSE)
CacheGet(store, sourceFile, content, language) ==
    LET cache == store[getCacheFilePath(sourceFile, language)]
    IN IF /\ cache.exists
          /\ cache.hash = generateHash(content)
          /\ language \in DOMAIN cache.translations
          /\ cache.translations[language] # EmptyStr
       THEN [hit |-> TRUE, translation |-> cache.translations[language]]
       ELSE [hit |-> FALSE, translation |-> EmptyStr]

\* mutant: the hash stored is the hash of the translation
CacheSetHashesTranslation(store, sourceFile, content, language, translation) ==
    LET cacheFile == getCacheFilePath(sourceFile, language)
        old == IF store[cacheFile].exists THEN store[cacheFile].translations ELSE << >>
    IN [store EXCEPT ![cacheFile] =
            [exists |-> TRUE, hash |-> generateHash(translation),
             translations |-> (language :> translation) @@ old]]

\* CacheManager.set: the cache file after the write
CacheSet(store, sourceFile, content, language, translation) ==
    LET cacheFile == getCacheFilePath(sourceFile, language)
        old == IF store[cacheFile].exists THEN store[cacheFile].translations ELSE << >>
    IN [store EXCEPT ![cacheFile] =
            [exists |-> TRUE, hash |-> generateHash(content),
             translations |-> (language :> translation) @@ old]]

\* what an earlier run may have left in the cache directory: nothing, or the
\* file of the first task, written for the present content or for an older one
InitialCaches ==
    LET first == Tasks[1]
        empty == [f \in CacheFiles |-> NoCacheFile]
        left(content) ==
            CacheSet(empty, first.htmlFile, content, first.targetLanguage,
                     Lit("cached"))
    IN {empty, left(FileContent(first.htmlFile)), left(Lit("older"))}

\* the variables no step of translateFile changes: those of the other
\* specifications, and the record of which task is run a second time
runIdle == <<html, safety, extraction, translations, targetLanguage, output, hpc,
             texts, mapping, translatedTexts, ti, batch, retries, result, tpc,
             attempts, waits, lastBatch, sent, rerun, firstOutput, cvars, kvars>>

\* a task that has not called extractTranslatableContent
NotExtracted ==
    [translatable |-> << >>, mapping |-> << >>, processedHtml |-> EmptyStr,
     placeholderMap |-> << >>, placeholderIndex |-> 0]

\* translateCommand up to the creation of the tasks
RInit ==
    /\ html = EmptyStr
    /\ safety = DefaultConfig
    /\ extraction = NoExtraction
    /\ translations = << >>
    /\ targetLanguage = ""
    /\ output = EmptyStr
    /\ hpc = "idle"
    /\ texts = << >>
    /\ mapping = << >>
    /\ translatedTexts = << >>
    /\ ti = 0
    /\ batch = << >>
    /\ retries = 0
    /\ result = << >>
    /\ tpc = "idle"
    /\ attempts = << >>
    /\ waits = << >>
    /\ lastBatch = NoBatch
    /\ sent = << >>
    /\ placeholderMap = << >>
    /\ placeholderIndex = 0
    /\ tokensUsed = 0
    /\ pc = [t \in TaskIds |-> "queued"]
    /\ extracted = [t \in TaskIds |-> NotExtracted]
    /\ translatedHtml = [t \in TaskIds |-> EmptyStr]
    /\ appliedWith = [t \in TaskIds |->
                         [applied |-> FALSE, input |-> EmptyStr, map |-> << >>]]
    /\ outputs = [t \in TaskIds |-> EmptyStr]
    /\ cacheStore \in InitialCaches
    /\ results = << >>
    /\ stats = [totalFiles |-> Len(htmlFiles) * Len(TargetLanguages),
                successfulFiles |-> 0, failedFiles |-> 0, totalTokens |-> 0]
    /\ rerun = 0
    /\ firstOutput = EmptyStr
    /\ CIdle
    /\ KIdle

\* the tasks p-limit has started and not yet settled
Active == {t \in TaskIds : pc[t] \notin {"queued", "done"}}

\* translateFile returns a success record; the task pushes it and counts it
\* (a record without tokensUsed counts like one with 0)
Succeed(t, used) ==
    /\ results' = Append(results,
            [source |-> Tasks[t].htmlFile, language |-> Tasks[t].targetLanguage,
             success |-> TRUE, error |-> "", tokensUsed |-> used])
    /\ stats' = [stats EXCEPT !.successfulFiles = @ + 1, !.totalTokens = @ + used]
    /\ pc' = [pc EXCEPT ![t] = "done"]

\* mutant: the error leaves translateFile, the task settles without a record
FailEscapes(t, message) ==
    /\ results' = results
    /\ stats' = stats
    /\ pc' = [pc EXCEPT ![t] = "done"]

\* the catch block of translateFile returns a failure record; the task pushes it
\* and counts it
Fail(t, message) ==
    /\ results' = Append(results,
            [source |-> Tasks[t].htmlFile, language |-> Tasks[t].targetLanguage,
             success |-> FALSE, error |-> message, tokensUsed |-> 0])
    /\ stats' = [stats EXCEPT !.failedFiles = @ + 1]
    /\ pc' = [pc EXCEPT ![t] = "done"]

\* mutant: the next queued task starts whatever the number of running tasks
RStartUngated(t) ==
    /\ pc[t] = "queued"
    /\ \A u \in TaskIds : u < t => pc[u] # "queued"
    /\ pc' = [pc EXCEPT ![t] = "read"]
    /\ UNCHANGED <<placeholderMap, placeholderIndex, tokensUsed, extracted, translatedHtml,
                   appliedWith, outputs, cacheStore, results, stats, runIdle>>

\* p-limit starts the next queued task while fewer than the limit are running;
\* the task calls fs.readFile
RStart(t) ==
    /\ pc[t] = "queued"
    /\ \A u \in TaskIds : u < t => pc[u] # "queued"
    /\ Cardinality(Active) < parallelLimit
    /\ pc' = [pc EXCEPT ![t] = "read"]
    /\ UNCHANGED <<placeholderMap, placeholderIndex, tokensUsed, extracted, translatedHtml,
                   appliedWith, outputs, cacheStore, results, stats, runIdle>>

\* fs.readFile settles; on success the task calls cacheManager.get
RReadDone(t, ok) ==
    /\ pc[t] = "read"
    /\ IF ok
       THEN /\ pc' = [pc EXCEPT ![t] = "cacheGet"]
            /\ UNCHANGED <<results, stats>>
       ELSE Fail(t, "ENOENT")
    /\ UNCHANGED <<placeholderMap, placeholderIndex, tokensUsed, extracted, translatedHtml,
                   appliedWith, outputs, cacheStore, runIdle>>

\* extractTranslatableContent(htmlContent) for each source file, computed once
ExtractionOf ==
    [f \in {htmlFiles[x] : x \in 1..Len(htmlFiles)} |->
        extractTranslatableContent(FileContent(f), DefaultConfig)]

\* what cacheManager.get finds for task t
CachedFor(t) ==
    CacheGet(cacheStore, Tasks[t].htmlFile, FileContent(Tasks[t].htmlFile),
             Tasks[t].targetLanguage)

\* cacheManager.get settles. On a hit the task writes the cached translation;
\* on a miss it runs extractTranslatableContent on the shared processor and
\* either copies the file (no unit) or calls translateTexts
RCacheGetDone(t) ==
    /\ pc[t] = "cacheGet"
    /\ \/ /\ CachedFor(t).hit
          /\ pc' = [pc EXCEPT ![t] = "writeCached"]
          /\ UNCHANGED <<placeholderMap, placeholderIndex, extracted>>
       \/ /\ ~CachedFor(t).hit
          /\ extracted' = [extracted EXCEPT ![t] = ExtractionOf[Tasks[t].htmlFile]]
          /\ placeholderMap' = extracted'[t].placeholderMap
          /\ placeholderIndex' = extracted'[t].placeholderIndex
          /\ pc' = [pc EXCEPT ![t] =
                       IF extracted'[t].translatable = << >>
                       THEN "copy" ELSE "translate"]
    /\ UNCHANGED <<tokensUsed, translatedHtml, appliedWith, outputs, cacheStore,
                   results, stats, runIdle>>

\* fs.writeFile of the cached translation settles
RWriteCachedDone(t, ok) ==
    /\ pc[t] = "writeCached"
    /\ IF ok
       THEN /\ outputs' = [outputs EXCEPT ![t] = CachedFor(t).translation]
            /\ Succeed(t, 0)
       ELSE /\ outputs' = outputs
            /\ Fail(t, "EACCES")
    /\ UNCHANGED <<placeholderMap, placeholderIndex, tokensUsed, extracted, translatedHtml,
                   appliedWith, cacheStore, runIdle>>

\* mutant: the skeleton of the extraction is written instead of the source file
RCopyDoneSkeleton(t, ok) ==
    /\ pc[t] = "copy"
    /\ IF ok
       THEN /\ outputs' = [outputs EXCEPT ![t] = extracted[t].processedHtml]
            /\ Succeed(t, 0)
       ELSE /\ outputs' = outputs
            /\ Fail(t, "EACCES")
    /\ UNCHANGED <<placeholderMap, placeholderIndex, tokensUsed, extracted, translatedHtml,
                   appliedWith, cacheStore, runIdle>>

\* fs.copy of the source file settles
RCopyDone(t, ok) ==
    /\ pc[t] = "copy"
    /\ IF ok
       THEN /\ outputs' = [outputs EXCEPT ![t] = FileContent(Tasks[t].htmlFile)]
            /\ Succeed(t, 0)
       ELSE /\ outputs' = outputs
            /\ Fail(t, "EACCES")
    /\ UNCHANGED <<placeholderMap, placeholderIndex, tokensUsed, extracted, translatedHtml,
                   appliedWith, cacheStore, runIdle>>

\* what translateTexts returns for task t: every unit of the mapping translated
TranslationsOf(t) ==
    MockTranslations(extracted[t].mapping, Tasks[t].targetLanguage, "ok")

\* applyTranslations(htmlContent, translations, targetLanguage) of task t, for
\* each vault map the processor can hold at that moment, computed once
TranslatedOf ==
    [t \in TaskIds |->
        [map \in {ExtractionOf[f].placeholderMap : f \in DOMAIN ExtractionOf} |->
            applyTranslations(FileContent(Tasks[t].htmlFile),
                              MockTranslations(ExtractionOf[Tasks[t].htmlFile].mapping,
                                               Tasks[t].targetLanguage, "ok"),
                              Tasks[t].targetLanguage, map, DefaultConfig)]]

\* translateTexts returns, its calls having used `usage` tokens; the task runs
\* applyTranslations(htmlContent, translations, targetLanguage) on the shared
\* processor and calls fs.writeFile
RTranslateDone(t, usage) ==
    /\ pc[t] = "translate"
    /\ translatedHtml' = [translatedHtml EXCEPT ![t] = TranslatedOf[t][placeholderMap]]
    /\ appliedWith' = [appliedWith EXCEPT ![t] =
                          [applied |-> TRUE, input |-> FileContent(Tasks[t].htmlFile),
                           map |-> placeholderMap]]
    /\ tokensUsed' = tokensUsed + usage
    /\ pc' = [pc EXCEPT ![t] = "write"]
    /\ UNCHANGED <<placeholderMap, placeholderIndex, extracted, outputs, cacheStore, results,
                   stats, runIdle>>

\* mutant: a task whose translation failed falls back to writing the source
\* document to the target path
RTranslateThrowCopies(t, usage) ==
    /\ pc[t] = "translate"
    /\ tokensUsed' = tokensUsed + usage
    /\ outputs' = [outputs EXCEPT ![t] = FileContent(Tasks[t].htmlFile)]
    /\ Fail(t, "API error")
    /\ UNCHANGED <<placeholderMap, placeholderIndex, extracted, translatedHtml, appliedWith,
                   cacheStore, runIdle>>

\* translateTexts throws, its calls having used `usage` tokens
RTranslateThrow(t, usage) ==
    /\ pc[t] = "translate"
    /\ tokensUsed' = tokensUsed + usage
    /\ Fail(t, "API error")
    /\ UNCHANGED <<placeholderMap, placeholderIndex, extracted, translatedHtml, appliedWith,
                   outputs, cacheStore, runIdle>>

\* fs.writeFile of the translated document settles; on success the task calls
\* cacheManager.set
RWriteDone(t, ok) ==
    /\ pc[t] = "write"
    /\ IF ok
       THEN /\ outputs' = [outputs EXCEPT ![t] = translatedHtml[t]]
            /\ pc' = [pc EXCEPT ![t] = "cacheSet"]
            /\ UNCHANGED <<results, stats>>
       ELSE /\ outputs' = outputs
            /\ Fail(t, "EACCES")
    /\ UNCHANGED <<placeholderMap, placeholderIndex, tokensUsed, extracted, translatedHtml,
                   appliedWith, cacheStore, runIdle>>

\* cacheManager.set settles; translateFile returns its record, tokensUsed read
\* from the shared translator
RCacheSetDone(t) ==
    /\ pc[t] = "cacheSet"
    /\ cacheStore' = CacheSet(cacheStore, Tasks[t].htmlFile,
                              FileContent(Tasks[t].htmlFile),
                              Tasks[t].targetLanguage, translatedHtml[t])
    /\ Succeed(t, tokensUsed)
    /\ UNCHANGED <<placeholderMap, placeholderIndex, tokensUsed, extracted, translatedHtml,
                   appliedWith, outputs, runIdle>>

RNext ==
    \/ \E t \in TaskIds : RStart(t)
    \/ \E t \in TaskIds, ok \in BOOLEAN : RReadDone(t, ok)
    \/ \E t \in TaskIds : RCacheGetDone(t)
    \/ \E t \in TaskIds, ok \in BOOLEAN : RWriteCachedDone(t, ok)
    \/ \E t \in TaskIds, ok \in BOOLEAN : RCopyDone(t, ok)
    \/ \E t \in TaskIds, usage \in Usages : RTranslateDone(t, usage)
    \/ \E t \in TaskIds, usage \in Usages : RTranslateThrow(t, usage)
    \/ \E t \in TaskIds, ok \in BOOLEAN : RWriteDone(t, ok)
    \/ \E t \in TaskIds : RCacheSetDone(t)

SpecRun == RInit /\ [][RNext]_vars

\* the run where every started operation settles in the end
FairRun == RInit /\ [][RNext]_vars /\ WF_vars(RNext)

----------------------------------------------------------------------------
(* A failing batch, seen inside the translator and from the task that called
   it: either one call of translateTexts is followed, or one run of the command *)

FInit == TInit \/ RInit

\* the steps of translateTexts, or, when no call of it is followed, the steps of
\* the tasks of a run
FNext ==
    \/ TNext
    \/ tpc = "idle" /\ RNext

SpecFailure == FInit /\ [][FNext]_vars

----------------------------------------------------------------------------
(* translateFile a second time for a task that succeeded: the command is run
   again on the same source, cache and output directories *)

\* every task of the run has settled
RunDone == \A t \in TaskIds : pc[t] = "done"

\* the records the run pushed for task t
RecordsOf(t) ==
    {k \in 1..Len(results) :
        /\ results[k].source = Tasks[t].htmlFile
        /\ results[k].language = Tasks[t].targetLanguage}

\* the command is started again: a new Translator and a new HtmlProcessor, the
\* cache directory and the output directory as the first run left them; of its
\* tasks the one for task t, which succeeded before, is followed
RRerun(t) ==
    /\ rerun = 0
    /\ RunDone
    /\ \E k \in RecordsOf(t) : results[k].success
    /\ rerun' = t
    /\ firstOutput' = outputs[t]
    /\ pc' = [u \in TaskIds |-> IF u = t THEN "queued" ELSE "done"]
    /\ placeholderMap' = << >>
    /\ placeholderIndex' = 0
    /\ tokensUsed' = 0
    /\ extracted' = [u \in TaskIds |-> NotExtracted]
    /\ translatedHtml' = [u \in TaskIds |-> EmptyStr]
    /\ appliedWith' = [u \in TaskIds |->
                          [applied |-> FALSE, input |-> EmptyStr, map |-> << >>]]
    /\ results' = << >>
    /\ stats' = [totalFiles |-> Len(htmlFiles) * Len(TargetLanguages),
                 successfulFiles |-> 0, failedFiles |-> 0, totalTokens |-> 0]
    /\ UNCHANGED <<outputs, cacheStore, html, safety, extraction, translations,
                   targetLanguage, output, hpc, texts, mapping, translatedTexts, ti,
                   batch, retries, result, tpc, attempts, waits, lastBatch, sent,
                   cvars, kvars>>

ANext ==
    \/ RNext
    \/ \E t \in TaskIds : RRerun(t)

SpecAgain == RInit /\ [][ANext]_vars

----------------------------------------------------------------------------
(* CacheManager: set and get calls in any order on one cache directory *)

\* the contents a source file has had
Revisions == {Lit("older"), Lit("newer")}

\* the translated documents handed to set
Translated == {Lit("cached"), Lit("recached")}

CInit ==
    /\ HIdle
    /\ TIdle
    /\ pc = << >>
    /\ extracted = << >>
    /\ translatedHtml = << >>
    /\ appliedWith = << >>
    /\ outputs = << >>
    /\ results = << >>
    /\ stats = [totalFiles |-> 0, successfulFiles |-> 0, failedFiles |-> 0,
                totalTokens |-> 0]
    /\ rerun = 0
    /\ firstOutput = EmptyStr
    /\ cacheStore = [f \in CacheFiles |-> NoCacheFile]
    /\ lastSet = [t \in TaskIds |-> NoSet]
    /\ got = NoGet
    /\ KIdle

\* the (sourceFile, language) of task t
PairOf(sourceFile, language) ==
    CHOOSE t \in TaskIds :
        Tasks[t].htmlFile = sourceFile /\ Tasks[t].targetLanguage = language

\* cacheManager.set(sourceFile, content, language, translation)
CSet(sourceFile, content, language, translation) ==
    /\ cacheStore' = CacheSet(cacheStore, sourceFile, content, language, translation)
    /\ lastSet' = [lastSet EXCEPT ![PairOf(sourceFile, language)] =
                       [set |-> TRUE, content |-> content]]
    /\ UNCHANGED <<got, hvars, tvars, pc, extracted, translatedHtml, appliedWith,
                   outputs, results, stats, rerun, firstOutput, kvars>>

\* cacheManager.get(sourceFile, content, language)
CGet(sourceFile, content, language) ==
    /\ got' = [called |-> TRUE, sourceFile |-> sourceFile, content |-> content,
               language |-> language,
               cache |-> cacheStore[getCacheFilePath(sourceFile, language)],
               lastSet |-> lastSet[PairOf(sourceFile, language)],
               result |-> CacheGet(cacheStore, sourceFile, content, language)]
    /\ UNCHANGED <<cacheStore, lastSet, hvars, tvars, pc, extracted, translatedHtml,
                   appliedWith, outputs, results, stats, rerun, firstOutput, kvars>>

CNext ==
    \/ \E f \in 1..Len(htmlFiles), l \in 1..Len(TargetLanguages),
          content \in Revisions, translation \in Translated :
            CSet(htmlFiles[f], content, TargetLanguages[l], translation)
    \/ \E f \in 1..Len(htmlFiles), l \in 1..Len(TargetLanguages),
          content \in Revisions :
            CGet(htmlFiles[f], content, TargetLanguages[l])

SpecCache == CInit /\ [][CNext]_vars

----------------------------------------------------------------------------
(* translateCommand: the tasks the two for loops create from the files found
   and the configured languages, and the calls each task makes to the
   CacheManager *)

\* the length of config.targetLanguages
MaxLanguages == 2

\* what ConfigSchema accepts for targetLanguages: an array of strings with at
\* least one entry
ConfigLanguages ==
    UNION {[1..n -> {TargetLanguages[l] : l \in 1..Len(TargetLanguages)}] :
              n \in 1..MaxLanguages}

\* the cache file of a task
CacheFileOf(task) == getCacheFilePath(task.htmlFile, task.targetLanguage)

\* the tasks inside a call of the CacheManager
InCache == {t \in 1..Len(stage) : stage[t] \in {"get", "set"}}

\* the tasks p-limit has started and that have not settled
Running == {t \in 1..Len(stage) : stage[t] \notin {"queued", "done"}}

KInit ==
    /\ HIdle
    /\ TIdle
    /\ pc = << >>
    /\ extracted = << >>
    /\ translatedHtml = << >>
    /\ appliedWith = << >>
    /\ outputs = << >>
    /\ cacheStore = << >>
    /\ results = << >>
    /\ stats = [totalFiles |-> 0, successfulFiles |-> 0, failedFiles |-> 0,
                totalTokens |-> 0]
    /\ rerun = 0
    /\ firstOutput = EmptyStr
    /\ CIdle
    /\ configured \in ConfigLanguages
    /\ tasks = << >>
    /\ stage = << >>

\* one turn of the inner for loop: tasks.push(limit(...)) for the next file and
\* language; the loops are synchronous, no task runs before they end
KPush ==
    /\ Len(tasks) < Len(htmlFiles) * Len(configured)
    /\ tasks' = Append(tasks,
           [htmlFile |-> htmlFiles[(Len(tasks) \div Len(configured)) + 1],
            targetLanguage |-> configured[(Len(tasks) % Len(configured)) + 1]])
    /\ stage' = Append(stage, "queued")
    /\ UNCHANGED <<configured, hvars, tvars, rvars, cvars>>

\* p-limit starts the next task; it reads its file and calls cacheManager.get
KStart(t) ==
    /\ Len(tasks) = Len(htmlFiles) * Len(configured)
    /\ stage[t] = "queued"
    /\ \A u \in 1..(t - 1) : stage[u] # "queued"
    /\ Cardinality(Running) < parallelLimit
    /\ stage' = [stage EXCEPT ![t] = "get"]
    /\ UNCHANGED <<configured, tasks, hvars, tvars, rvars, cvars>>

\* cacheManager.get returns: on a hit the task writes the target file and
\* settles, on a miss it goes on to extract and translate
KGetDone(t, hit) ==
    /\ stage[t] = "get"
    /\ stage' = [stage EXCEPT ![t] = IF hit THEN "done" ELSE "work"]
    /\ UNCHANGED <<configured, tasks, hvars, tvars, rvars, cvars>>

\* the task settles without calling cacheManager.set: nothing to translate, or
\* a failure
KSettle(t) ==
    /\ stage[t] = "work"
    /\ stage' = [stage EXCEPT ![t] = "done"]
    /\ UNCHANGED <<configured, tasks, hvars, tvars, rvars, cvars>>

\* cacheManager.set has read the cache file (or found none)
KSetRead(t) ==
    /\ stage[t] = "work"
    /\ stage' = [stage EXCEPT ![t] = "set"]
    /\ UNCHANGED <<configured, tasks, hvars, tvars, rvars, cvars>>

\* cacheManager.set has written the cache file; the task settles
KSetWrite(t) ==
    /\ stage[t] = "set"
    /\ stage' = [stage EXCEPT ![t] = "done"]
    /\ UNCHANGED <<configured, tasks, hvars, tvars, rvars, cvars>>

KNext ==
    \/ KPush
    \/ \E t \in 1..Len(stage) : KStart(t)
    \/ \E t \in 1..Len(stage), hit \in BOOLEAN : KGetDone(t, hit)
    \/ \E t \in 1..Len(stage) : KSettle(t)
    \/ \E t \in 1..Len(stage) : KSetRead(t)
    \/ \E t \in 1..Len(stage) : KSetWrite(t)

SpecTasks == KInit /\ [][KNext]_vars

----------------------------------------------------------------------------
(* Claims about the HtmlProcessor, under SpecHtml *)

\* C1: the string applyTranslations returns holds no placeholder token, for every
\* document and language, protected elements nested in one another included.
C1_NoPlaceholderLeak == hpc = "applied" => ~HasToken(output)

\* C2: the output of applyTranslations holds the original outer markup of every
\* element that extraction protected, unchanged, whatever the language and
\* whatever the translation capability returned.
C2_RoundTripFidelity ==
    hpc = "applied" =>
        \A o \in 1..Len(html) :
            (html[o].k = "open" /\ html[o].tag \in ProtectedTags(safety))
                => IsSubstring(SubSeq(html, o, MatchClose(html, o)), output)

\* the elements of a document that carry data-translate-key
Tagged(doc) ==
    {i \in 1..Len(doc) : doc[i].k = "open" /\ HasAttr(doc[i], "data-translate-key")}

\* the texts of the block units of a mapping, in the order of the mapping
BlockTexts(map) ==
    LET blocks == SelectSeq(map, LAMBDA e : e.key \in {Key("BLOCK", n) : n \in 0..Len(map)})
    IN [e \in 1..Len(blocks) |-> blocks[e].value]

\* C14: after extraction no element tagged as a block unit has a descendant with
\* a block-level tag name, so no tagged element lies inside another one; and the
\* body <div><p>A</p><p>B</p></div> gives exactly the two block units A and B,
\* in document order, the div staying untagged.
C14_NoDoubleExtraction ==
    hpc = "extracted" =>
        LET doc == extraction.processedHtml
        IN /\ \A i \in Tagged(doc) :
                  \A n \in (i + 1)..(MatchClose(doc, i) - 1) :
                      ~(doc[n].k = "open" /\ doc[n].tag \in blockElements)
           /\ \A i, j \in Tagged(doc) : i < j => MatchClose(doc, i) < j
           /\ \A h \in 1..Len(Heads) :
                  html = Page(Heads[h], Div(P(Lit("A")) \o P(Lit("B")))) =>
                      /\ BlockTexts(extraction.mapping) = <<Lit("A"), Lit("B")>>
                      /\ \A i \in Tagged(doc) : doc[i].tag = "p"

\* a list item holding a paragraph was extracted next to the div of two
\* paragraphs: three block units, the paragraphs, none for the li or the div
C14_Witness ==
    /\ hpc = "extracted"
    /\ \E h \in 1..Len(Heads) :
          html = Page(Heads[h], Li(P(Lit("A"))) \o Div(P(Lit("A")) \o P(Lit("B"))))
    /\ Cardinality(Tagged(extraction.processedHtml)) = 3
    /\ BlockTexts(extraction.mapping) = <<Lit("A"), Lit("A"), Lit("B")>>

\* C15: after extractTranslatableContent the units and the mapping are aligned:
\* as many entries, and the i-th unit text is the value of the i-th key of the
\* mapping, for every kind of unit, structured-data units included.
C15_UnitsAligned ==
    hpc = "extracted" =>
        /\ Len(extraction.translatable) = Len(extraction.mapping)
        /\ \A i \in 1..Len(extraction.translatable) :
               extraction.translatable[i] = extraction.mapping[i].value

\* the positions of a document inside an element of one of the tags, the tags
\* of that element included
Inside(doc, tags) ==
    {n \in 1..Len(doc) :
        \E o \in 1..Len(doc) :
            /\ doc[o].k = "open" /\ doc[o].tag \in tags
            /\ o <= n /\ n <= MatchClose(doc, o)}

\* C16: with a class of elements protected, no unit handed to the translation
\* capability holds a tag of that class or a piece of the content of an element
\* of that class (a piece of a unit that equals protected content also stands
\* outside every protected element of the document): at most the placeholder
\* token stands in the element's place.
C16_ProtectedNeverSent ==
    hpc = "extracted" =>
        LET tags == ProtectedTags(safety)
            inside == Inside(html, tags)
            outside == {html[n] : n \in (1..Len(html)) \ inside}
        IN \A u \in 1..Len(extraction.translatable) :
               \A a \in 1..Len(extraction.translatable[u]) :
                   LET atom == extraction.translatable[u][a]
                   IN /\ atom.k \in {"open", "close"} => atom.tag \notin tags
                      /\ atom \in {html[n] : n \in inside} => atom \in outside

\* with the defaults, <p>Use<code>x</code>now</p> gave the unit
\* Use__SKIP_PLACEHOLDER_0__now
C16_Witness ==
    /\ hpc = "extracted"
    /\ safety = DefaultConfig
    /\ \E n \in 1..Len(html) : html[n] = Open("code", NoAttrs)
    /\ \E u \in 1..Len(extraction.translatable) :
          extraction.translatable[u] = Lit("Use") \o <<Tok(0)>> \o Lit("now")

\* C17: every script of type application/ld+json of the document whose content
\* parses as JSON gives one structured-data unit, with script preservation
\* enabled as with it disabled.
C17_JsonLdExtracted ==
    hpc = "extracted" =>
        LET scripts == JsonLdScripts(html)
            parsed == {n \in 1..Len(scripts) : JsonParses(Inner(html, scripts[n]))}
        IN \A n \in parsed :
               /\ MapHas(extraction.mapping, Key("JSON_LD", n - 1))
               /\ \E u \in 1..Len(extraction.translatable) :
                      extraction.translatable[u] = JsonStringify(Inner(html, scripts[n]))

\* C20: the string applyTranslations returns holds no data-translate-key
\* attribute, whatever the translations handed in, those that lack a key or hold
\* an empty string for it included.
C20_NoTaggingAttribute ==
    hpc = "applied" =>
        \A n \in 1..Len(output) :
            output[n].k \in {"open", "void"} => ~HasAttr(output[n], "data-translate-key")

\* the alternate-language links of a document
AlternateLinks(doc) ==
    {n \in 1..Len(doc) :
        /\ doc[n].k = "void" /\ doc[n].tag = "link"
        /\ HasAttr(doc[n], "rel") /\ AttrOf(doc[n], "rel") = Lit("alternate")
        /\ HasAttr(doc[n], "hreflang")}

\* C21: with hreflang injection enabled the output holds exactly one alternate
\* link per distinct language among the target languages and the source
\* language, links of the input being replaced; the link of the language
\* rendered is marked x-default, every other link carries its language code.
C21_OneLinkPerLanguage ==
    (hpc = "applied" /\ safety.injectHreflang) =>
        LET languages == {safety.targetLanguages[l] :
                             l \in 1..Len(safety.targetLanguages)} \cup {SourceLanguage}
            links == AlternateLinks(output)
            of(lang) == {n \in links : AttrOf(output[n], "href") = Lit("/" \o lang \o "/")}
        IN /\ Cardinality(links) = Cardinality(languages)
           /\ \A lang \in languages :
                  /\ Cardinality(of(lang)) = 1
                  /\ \A n \in of(lang) :
                         AttrOf(output[n], "hreflang") =
                             Lit(IF lang = targetLanguage THEN "x-default" ELSE lang)
           /\ Cardinality({n \in links : AttrOf(output[n], "hreflang") = Lit("x-default")}) = 1

\* a document that came with an alternate link of its own was rendered
C21_Witness ==
    /\ hpc = "applied"
    /\ safety.injectHreflang
    /\ AlternateLinks(html) # {}
    /\ Cardinality(AlternateLinks(output)) = Len(safety.targetLanguages) + 1

\* C25: after extractTranslatableContent every token stored in the vault occurs
\* exactly once in the skeleton, documents with one protected element nested in
\* another included.
C25_TokenOncePerEntry ==
    hpc = "extracted" =>
        \A e \in 1..Len(placeholderMap) :
            Cardinality({n \in 1..Len(extraction.processedHtml) :
                extraction.processedHtml[n] = Tok(placeholderMap[e].placeholder)}) = 1

----------------------------------------------------------------------------
(* Claims about units and their reinjection, under SpecUnits *)

\* the title of the document is extracted as a unit and every paragraph holding
\* text of its own is tagged with the key of a unit
OthersExtracted ==
    /\ MapHas(extraction.mapping, "__TITLE__")
    /\ \A i \in 1..Len(extraction.processedHtml) :
          LET doc == extraction.processedHtml
          IN (doc[i].k = "open" /\ doc[i].tag = "p"
                /\ \E a \in 1..Len(Inner(doc, i)) : Inner(doc, i)[a].k = "text")
             => /\ HasAttr(doc[i], "data-translate-key")
                /\ MapHas(extraction.mapping, KeyOf(doc[i]))

\* the title and the tagged paragraphs carry their translations
OthersReinjected ==
    /\ TitleText(output) = TextOf(translations["__TITLE__"])
    /\ \A i \in 1..Len(output) : ~HasAttr(output[i], "data-translate-key")
    /\ \A i \in 1..Len(output) :
          (output[i].k = "text" /\ output[i - 1].k = "open" /\ output[i - 1].tag = "p")
              => output[i].lang = targetLanguage

\* C24: a JSON-LD block of the skeleton whose content does not parse takes an
\* index and yields no unit; a JSON-LD block for which there is no translation
\* that parses has in the output the content it has in the source document; the
\* title and the block elements of the document are extracted and reinjected all
\* the same.
C24_JsonLdRecovered ==
    LET skeleton == extraction.processedHtml
        from == JsonLdScripts(skeleton)
        source == JsonLdScripts(html)
        to == JsonLdScripts(output)
    IN /\ hpc \in {"extracted", "applied"} =>
             /\ OthersExtracted
             /\ \A n \in 1..Len(from) :
                   /\ MapHas(extraction.mapping, Key("JSON_LD", n - 1))
                        <=> Inner(skeleton, from[n]) \in {Lit("json"), Lit("json-spaced")}
       /\ hpc = "applied" =>
             /\ OthersReinjected
             /\ Len(to) = Len(source)
             /\ \A n \in 1..Len(source) :
                   LET key == Key("JSON_LD", n - 1)
                       original == Inner(html, source[n])
                       translated == Translation(translations, key)
                   IN Inner(output, to[n]) =
                          IF translated \in {<<Txt("json", targetLanguage)>>,
                                             <<Txt("json-spaced", targetLanguage)>>}
                          THEN <<Txt("json", targetLanguage)>>
                          ELSE original

\* C24 witness: one JSON-LD block that does not parse and one whose translation
\* does not parse, both unchanged in the output, in a document whose title was
\* translated
C24_Witness ==
    /\ hpc = "applied"
    /\ Len(JsonLdScripts(output)) = 2
    /\ Inner(output, JsonLdScripts(output)[1]) = Lit("{bad")
    /\ Inner(output, JsonLdScripts(output)[2]) = Lit("json-spaced")
    /\ ~MapHas(extraction.mapping, "__JSON_LD_0__")
    /\ Translation(translations, "__JSON_LD_1__") = <<Txt("not json", targetLanguage)>>
    /\ TitleText(output) = <<Txt("Hello", targetLanguage)>>

\* C26: every unit of an extraction has text left after trimming, and every block
\* unit holds text that is neither whitespace nor a placeholder token.
C26_UnitsHaveText ==
    hpc = "extracted" =>
        \A e \in 1..Len(extraction.mapping) :
            LET unit == extraction.mapping[e]
            IN /\ Trim(TextOf(unit.value)) # << >>
               /\ unit.key \in {Key("BLOCK", n) : n \in 0..Len(extraction.mapping)}
                     => \E a \in 1..Len(unit.value) :
                            unit.value[a].k = "text" /\ ~IsSpace(unit.value[a])

\* the three kinds of attribute unit: selector, attribute and key prefix
AttrKinds ==
    << [tags |-> {"img"}, name |-> "alt", prefix |-> "IMG_ALT"],
       [tags |-> {}, name |-> "title", prefix |-> "TITLE_ATTR"],
       [tags |-> {}, name |-> "placeholder", prefix |-> "PLACEHOLDER"] >>

\* C29: the n-th match of an attribute selector in the skeleton yields the unit
\* <kind>#n exactly when its value is not blank, and the n-th match in the output
\* is the same element carrying the translation of that value; a blank value
\* takes the index, yields no unit and stays as it is.
C29_AttributeSites ==
    hpc = "applied" =>
        \A a \in 1..Len(AttrKinds) :
            LET kind == AttrKinds[a]
                from == SelectHaving(extraction.processedHtml, kind.tags, kind.name)
                to == SelectHaving(output, kind.tags, kind.name)
            IN /\ Len(to) = Len(from)
               /\ \A n \in 1..Len(from) :
                     LET src == extraction.processedHtml[from[n]]
                         dst == output[to[n]]
                         value == AttrOf(src, kind.name)
                         key == Key(kind.prefix, n - 1)
                     IN /\ dst.tag = src.tag
                        /\ Len(dst.attrs) = Len(src.attrs)
                        /\ MapHas(extraction.mapping, key) <=> Trim(value) # << >>
                        /\ MapHas(extraction.mapping, key)
                              => MapGet(extraction.mapping, key) = value
                        /\ AttrOf(dst, kind.name) =
                              IF Trim(value) # << >>
                              THEN TranslateText(value, targetLanguage, "ok")
                              ELSE value

\* C29 witness: of two images the first has a blank alt text; the unit of the
\* second one has index 1 and its translation is in the second image
C29_Witness ==
    LET imgs == SelectHaving(output, {"img"}, "alt")
    IN /\ hpc = "applied"
       /\ Len(imgs) = 2
       /\ AttrOf(output[imgs[1]], "alt") = Lit(" ")
       /\ AttrOf(output[imgs[2]], "alt") = <<Txt("Photo", targetLanguage)>>
       /\ ~MapHas(extraction.mapping, "__IMG_ALT_0__")
       /\ MapGet(extraction.mapping, "__IMG_ALT_1__") = Lit("Photo")

----------------------------------------------------------------------------
(* Claims about the Translator, under SpecTr *)

\* an attempt that failed as rate limited: status 429 or code rate_limit_exceeded
RateLimited(a) == a.status = 429 \/ a.code = "rate_limit_exceeded"

\* an attempt in which the external call itself failed
CallFailed(a) == a.status # 200

\* the API calls translateBatch has issued for the current batch
CallsIssued == Len(attempts) + (IF tpc = "call" THEN 1 ELSE 0)

\* C4: translateBatch on distinct texts and a parseable response, whose array is
\* shorter than, as long as or longer than the input, returns exactly one entry
\* per text; a text whose position has no entry or a blank one maps to itself,
\* never to a blank string, and the call succeeds.
C4_CountInvariant ==
    /\ lastBatch.texts # << >> =>
          LET b == lastBatch.texts
              a == lastBatch.translations
              r == lastBatch.result
          IN /\ DOMAIN r = {b[x] : x \in 1..Len(b)}
             /\ Cardinality(DOMAIN r) = Len(b)
             /\ \A x \in 1..Len(b) :
                   /\ r[b[x]] # Blank
                   /\ r[b[x]] = IF x <= Len(a) /\ a[x] # Blank THEN a[x] ELSE b[x]
    /\ (attempts # << >> /\ attempts[Len(attempts)] = Answered("ok"))
          => /\ tpc \in {"loop", "done"}
             /\ lastBatch.texts = batch

\* C4 witness: the capability returned fewer entries than asked for, one of them
\* blank, and translateTexts went on to return
C4_Witness ==
    /\ tpc = "done"
    /\ Len(lastBatch.translations) < Len(lastBatch.texts)
    /\ \E x \in 1..Len(lastBatch.translations) : lastBatch.translations[x] = Blank

\* C5: what translateTexts returns has exactly the keys of mapping, every value is
\* non-empty, and a key whose original text is not among the translated texts maps
\* to its own original text.
C5_ResultTotal ==
    tpc = "done" =>
        /\ DOMAIN result = {mapping[e].key : e \in 1..Len(mapping)}
        /\ \A e \in 1..Len(mapping) :
              /\ result[mapping[e].key] # Blank
              /\ mapping[e].value \notin DOMAIN translatedTexts
                    => result[mapping[e].key] = mapping[e].value

\* C5 witness: translateTexts returned and one key's original text was never among
\* the translated texts
C5_Witness ==
    /\ tpc = "done"
    /\ \E e \in 1..Len(mapping) : mapping[e].value \notin DOMAIN translatedTexts

\* C6: when every call fails as rate limited, translateBatch issues exactly
\* maxRetries calls with a wait between consecutive calls and then throws; a call
\* that succeeds ends the batch, no further call is issued.
C6_RateLimitRetries ==
    /\ CallsIssued <= maxRetries
    /\ tpc = "call" => Len(waits) = Len(attempts)
    /\ (tpc = "failed" /\ \A k \in 1..Len(attempts) : RateLimited(attempts[k]))
          => Len(attempts) = maxRetries /\ Len(waits) = maxRetries - 1
    /\ \A k \in 1..Len(attempts) :
          attempts[k] = Answered("ok") => k = Len(attempts) /\ tpc \in {"loop", "done"}

\* C6 witness: three rate-limited calls, two waits, then the throw
C6_Witness ==
    /\ tpc = "failed"
    /\ Len(attempts) = 3
    /\ \A k \in 1..Len(attempts) : RateLimited(attempts[k])
    /\ Len(waits) = 2

\* C30: the k-th wait of translateBatch follows k failed attempts and lasts
\* 1000 * 2^k ms, 10000 ms at most; each wait is double the one before unless it is
\* the cap; no wait follows the attempt number maxRetries. The wait function
\* itself doubles up to the cap for every count of failed attempts.
C30_Backoff ==
    /\ \A k \in 1..Len(waits) :
          /\ waits[k] <= 10000
          /\ 1000 * (2 ^ k) <= 10000 => waits[k] = 1000 * (2 ^ k)
          /\ 1000 * (2 ^ k) > 10000 => waits[k] = 10000
          /\ k > 1 => waits[k] = 2 * waits[k - 1] \/ waits[k] = 10000
          /\ k <= Len(attempts) /\ CallFailed(attempts[k])
    /\ tpc = "sleep" => Len(waits) = Len(attempts)
    /\ Len(attempts) >= maxRetries => tpc # "sleep" /\ Len(waits) = maxRetries - 1
    /\ \A k \in 1..(maxRetries + maxRetries) :
          /\ waitTime(k) <= 10000
          /\ waitTime(k) \in {1000 * (2 ^ k), 10000}
          /\ waitTime(k) = 10000 => 1000 * (2 ^ k) >= 10000
          /\ waitTime(k + 1) = 2 * waitTime(k) \/ waitTime(k + 1) = 10000

\* C30 witness: translateBatch sleeps for the second time, twice as long as the
\* first time
C30_Witness ==
    /\ tpc = "sleep"
    /\ Len(waits) = maxRetries - 1
    /\ waits[2] = 2 * waits[1]
    /\ waits[1] = 2000

\* C7: a failure of the external call that is not rate limiting is never retried:
\* it is the last attempt and translateBatch has thrown, also after rate-limited
\* attempts.
C7_NoRetryOfOtherFailure ==
    \A k \in 1..Len(attempts) :
        (CallFailed(attempts[k]) /\ ~RateLimited(attempts[k]))
            => k = Len(attempts) /\ tpc = "failed"

\* C7 witness: a rate-limited attempt, then a failure of another kind
C7_Witness ==
    /\ tpc = "failed"
    /\ Len(attempts) = 2
    /\ RateLimited(attempts[1])
    /\ CallFailed(attempts[2]) /\ ~RateLimited(attempts[2])

\* C8: a malformed response is retried like a rate-limited attempt: the batch
\* fails on a malformed response only once the retry budget is used up.
C8_MalformedRetried ==
    (tpc = "failed" /\ attempts # << >>
        /\ attempts[Len(attempts)] = Answered("malformed"))
        => Len(attempts) = maxRetries

\* the texts in the order of their first occurrence
FirstOccurrences(q) ==
    LET firsts == {i \in 1..Len(q) : \A j \in 1..(i - 1) : q[j] # q[i]}
    IN [k \in 1..Cardinality(firsts) |->
           q[CHOOSE i \in firsts : Cardinality({j \in firsts : j < i}) = k - 1]]

\* the texts of the batches handed to translateBatch so far, one after another
SentTexts == Concat(sent)

\* C18: translateTexts hands its batches to translateBatch one after another:
\* a batch holds at most batchSize texts, the batches follow the order of first
\* occurrence of their texts, and a batch is handed over only after the call
\* for every earlier batch has returned its translations; while a call is
\* outstanding it is the call for the last batch handed over.
C18_SequentialBatches ==
    /\ \A b \in 1..Len(sent) : Len(sent[b]) \in 1..batchSize
    /\ Len(SentTexts) <= Len(FirstOccurrences(texts))
    /\ SentTexts = SubSeq(FirstOccurrences(texts), 1, Len(SentTexts))
    /\ \A b \in 1..(Len(sent) - 1) :
           \A x \in 1..Len(sent[b]) : sent[b][x] \in DOMAIN translatedTexts
    /\ tpc \in {"call", "sleep"} =>
           /\ sent # << >>
           /\ batch = sent[Len(sent)]
           /\ \A x \in 1..Len(batch) : batch[x] \notin DOMAIN translatedTexts

\* the call for the second batch is outstanding, the first batch was full and
\* its call has returned
C18_Witness ==
    /\ tpc = "call"
    /\ Len(sent) = 2
    /\ Len(sent[1]) = batchSize
    /\ \A x \in 1..Len(sent[1]) : sent[1][x] \in DOMAIN translatedTexts

\* C19: when translateTexts has returned, every distinct text was handed to
\* translateBatch in exactly one batch, once, and nothing else was; and keys of
\* the mapping that share one text have the same translation in the result.
C19_Deduplication ==
    tpc = "done" =>
        /\ \A i \in 1..Len(texts) :
               Cardinality({x \in 1..Len(SentTexts) : SentTexts[x] = texts[i]}) = 1
        /\ \A x \in 1..Len(SentTexts) : \E i \in 1..Len(texts) : texts[i] = SentTexts[x]
        /\ \A e, f \in 1..Len(mapping) :
               mapping[e].value = mapping[f].value
                   => result[mapping[e].key] = result[mapping[f].key]

\* four units, two of them with the same text, went out in two batches; the two
\* keys of the shared text got its translation
C19_Witness ==
    /\ tpc = "done"
    /\ Len(texts) = 4
    /\ Len(sent) = 2
    /\ \E e, f \in 1..Len(mapping) :
          /\ e # f
          /\ mapping[e].value = mapping[f].value
          /\ result[mapping[e].key] = Tr(mapping[e].value)
          /\ result[mapping[f].key] = Tr(mapping[e].value)

----------------------------------------------------------------------------
(* Claims about a run of the translate command, under SpecRun and FairRun *)

\* the keys of the block units of a mapping
BlockKeys(map) ==
    {map[e].key : e \in 1..Len(map)} \cap {Key("BLOCK", n) : n \in 0..Len(map)}

\* C3: in translateFile, applyTranslations receives the skeleton the task's own
\* extraction produced, and for every block unit key of the mapping the
\* translated text stands in the document the task produces.
C3_ReinjectionReceivesSkeleton ==
    \A t \in TaskIds :
        appliedWith[t].applied =>
            /\ appliedWith[t].input = extracted[t].processedHtml
            /\ \A key \in BlockKeys(extracted[t].mapping) :
                   IsSubstring(TranslationsOf(t)[key], translatedHtml[t])

\* C9: the vault map a task's applyTranslations restores from is the map the
\* task's own extractTranslatableContent built, under every interleaving.
C9_VaultNotShared ==
    \A t \in TaskIds :
        appliedWith[t].applied => appliedWith[t].map = extracted[t].placeholderMap

\* a settled task has exactly one record, an unsettled one none; a failed record
\* carries an error message; the counters count the records
RecordsKept ==
    /\ \A t \in TaskIds :
          Cardinality(RecordsOf(t)) = IF pc[t] = "done" THEN 1 ELSE 0
    /\ \A k \in 1..Len(results) : ~results[k].success => results[k].error # ""
    /\ stats.successfulFiles = Cardinality({k \in 1..Len(results) : results[k].success})
    /\ stats.failedFiles = Cardinality({k \in 1..Len(results) : ~results[k].success})
    /\ RunDone => stats.successfulFiles + stats.failedFiles = stats.totalFiles

\* a step that settles one task leaves every other task where it stands
SettlesAlone ==
    \A t \in TaskIds :
        (pc[t] # "done" /\ pc'[t] = "done") =>
            \A u \in TaskIds \ {t} : pc'[u] = pc[u]

\* C10: a failure inside one task never cancels or fails another task; every
\* task in the end yields exactly one record, a failed one with success = false
\* and an error message, and at the end successfulFiles + failedFiles equals
\* totalFiles.
C10_FailureIsolation == []RecordsKept /\ [][SettlesAlone]_vars /\ <>RunDone

\* the run is over, a task failed, and a task that was not yet settled at that
\* moment succeeded after it
C10_Witness ==
    /\ RunDone
    /\ \E j, k \in 1..Len(results) :
          j < k /\ ~results[j].success /\ results[k].success

\* C11: at every moment the tasks started and not yet settled are at most
\* parallelLimit, and while that many are running a queued task stays queued:
\* a further task starts only after a running one has settled.
C11_AdmissionGate ==
    /\ [](Cardinality(Active) <= parallelLimit)
    /\ [][\A t \in TaskIds :
            (pc[t] = "queued" /\ Cardinality(Active) = parallelLimit)
                => pc'[t] = "queued"]_vars

\* the gate is full, a task waits behind it and another one has already settled
C11_Witness ==
    /\ Cardinality(Active) = parallelLimit
    /\ \E t \in TaskIds : pc[t] = "queued"
    /\ \E t \in TaskIds : pc[t] = "done"

\* the tasks whose extraction has run and produced no unit
WithoutUnit ==
    {t \in TaskIds : extracted[t] # NotExtracted /\ extracted[t].translatable = << >>}

\* C22: a task whose extraction yields no unit never calls translateTexts or
\* applyTranslations; once fs.copy has succeeded the target file is the source
\* document unchanged and the task has one record, a success without tokens (a
\* failed copy leaves the target unwritten and gives a failure record).
C22_NoUnitCopiesSource ==
    \A t \in WithoutUnit :
        /\ pc[t] \in {"copy", "done"}
        /\ ~appliedWith[t].applied
        /\ translatedHtml[t] = EmptyStr
        /\ pc[t] = "copy" => RecordsOf(t) = {} /\ outputs[t] = EmptyStr
        /\ pc[t] = "done" =>
               /\ Cardinality(RecordsOf(t)) = 1
               /\ \A k \in RecordsOf(t) :
                      IF results[k].success
                      THEN /\ outputs[t] = FileContent(Tasks[t].htmlFile)
                           /\ results[k].tokensUsed = 0
                      ELSE /\ outputs[t] = EmptyStr
                           /\ results[k].error = "EACCES"

\* a document without unit has been copied while a task with units has spent
\* tokens on the shared translator
C22_Witness ==
    /\ tokensUsed > 0
    /\ \E t \in WithoutUnit :
          /\ pc[t] = "done"
          /\ outputs[t] = FileContent(Tasks[t].htmlFile)
          /\ outputs[t] # extracted[t].processedHtml
          /\ \E k \in RecordsOf(t) : results[k].success

\* C28: once every task has settled, stats.totalTokens is the number of tokens
\* the external calls of the run have used.
C28_TokenAccounting == RunDone => stats.totalTokens = tokensUsed

\* translateBatch has thrown: the failing batch is the last one dispatched and
\* translateTexts has returned nothing; a result is returned only after every
\* batch has been translated
NothingPartial ==
    /\ tpc = "failed" =>
          /\ result = << >>
          /\ ti < Len(uniqueTexts)
          /\ Len(sent) = (ti \div batchSize) + 1
          /\ sent[Len(sent)] = batch
    /\ result # << >> => tpc = "done" /\ ti >= Len(uniqueTexts)

\* a step in which translateTexts throws into task t: no file and no cache
\* entry is written, and the task pushes a failure record
ThrowLeavesNothing ==
    \A t \in DOMAIN pc :
        (pc[t] = "translate" /\ pc'[t] = "done") =>
            /\ outputs' = outputs
            /\ cacheStore' = cacheStore
            /\ translatedHtml'[t] = EmptyStr
            /\ ~appliedWith'[t].applied
            /\ Len(results') = Len(results) + 1
            /\ results'[Len(results')].source = Tasks[t].htmlFile
            /\ results'[Len(results')].language = Tasks[t].targetLanguage
            /\ ~results'[Len(results')].success
            /\ stats'.failedFiles = stats.failedFiles + 1
            /\ stats'.successfulFiles = stats.successfulFiles

\* a task whose record is a failed translation has no target file from this run
FailedHasNoOutput ==
    \A t \in DOMAIN pc :
        (\E k \in RecordsOf(t) : results[k].error = "API error") =>
            /\ pc[t] = "done"
            /\ outputs[t] = EmptyStr
            /\ ~appliedWith[t].applied
            /\ \A k \in RecordsOf(t) : ~results[k].success

\* C27: when a batch fails inside translateTexts no later batch is dispatched
\* and nothing is returned; the task that called it writes no target file and no
\* cache entry, the cache being left as it was, and its record is a failure.
C27_FailedBatchStopsTask ==
    []NothingPartial /\ []FailedHasNoOutput /\ [][ThrowLeavesNothing]_vars

\* C27 witness: the second batch has failed after the first one was translated
C27_Witness ==
    /\ tpc = "failed"
    /\ Len(sent) = 2
    /\ translatedTexts # << >>
    /\ result = << >>

\* no entry occurs twice
NoRepeat(q) == \A x, y \in 1..Len(q) : x # y => q[x] # q[y]

\* every task has a pair of its own, tasks with different pairs have different
\* cache files, and while a task is between the read and the write of
\* cacheManager.set no other task is inside a call for the same cache file
OwnCacheEntry ==
    /\ \A t, u \in 1..Len(tasks) :
          t # u => /\ tasks[t] # tasks[u]
                   /\ CacheFileOf(tasks[t]) # CacheFileOf(tasks[u])
    /\ \A t, u \in InCache :
          (t # u /\ stage[t] = "set") => CacheFileOf(tasks[t]) # CacheFileOf(tasks[u])

\* C23 as stated: for every configuration the schema accepts, no two tasks of a
\* run have the same (document, language) pair or the same cache file, and a
\* cacheManager.set is never interleaved with another task's call for its entry.
C23_OwnCacheEntry == OwnCacheEntry

\* C23 amended: the same, for a configuration whose targetLanguages lists no
\* language twice.
C23_OwnCacheEntryAmended == NoRepeat(configured) => OwnCacheEntry

\* C23 witness: two languages, and two tasks inside the CacheManager at once,
\* one of them between the read and the write of set
C23_Witness ==
    /\ NoRepeat(configured)
    /\ Len(configured) = 2
    /\ \E t, u \in InCache : t # u /\ stage[t] = "set" /\ stage[u] = "set"

====
